---- MODULE Spec2Model ----
(***************************************************************************)
(* goboardsync: the last-move detection pipeline of package vision         *)
(* (DetectLastMoveCoord and the functions it calls).                       *)
(*                                                                         *)
(* An image is represented by what the OpenCV calls of the pipeline read   *)
(* from it: its size, the uniformly coloured regions ("blobs") of the      *)
(* rectified board, the circles the Hough sweep reports and the contour    *)
(* found around the stone.  Pixels are BGR triples <<b, g, r>>, the        *)
(* channel order gocv.IMRead produces.  A confidence is a number of        *)
(* hundredths (0.2 is 20, 1.0 is 100).                                     *)
(***************************************************************************)
EXTENDS Integers, Sequences, FiniteSets, TLC

VARIABLES
    table,        \* the resolution -> corners table in effect (FixedBoardCorners)
    pc,           \* position inside DetectLastMoveCoord
    img,          \* the call's image: [size, blobs]
    moveNumber,   \* the call's move-number hint
    corners,      \* local corners
    markPt,       \* local markPt
    stoneCenter,  \* local stoneCenter
    nearest,      \* locals bestCol, bestRow, minDist (squared) of the search
    mask,         \* indices of the blobs selected by the last colour mask
    invoked,      \* pipeline stages invoked so far in this call, in order
    markErrs,     \* which strategies of this call returned an error
    result,       \* the returned Result
    err,          \* the returned error: "nil" or its kind
    axisLines,    \* the line positions of one axis handed to the reconstruction
    axisCentres,  \* the cluster centres completeGrid receives
    axisGrid,     \* the positions completeGrid returns
    hLines,       \* AutoCalibrateBoard: the horizontal lines HoughLines reported
    vLines,       \* AutoCalibrateBoard: the vertical lines HoughLines reported
    calib,        \* what AutoCalibrateBoard returns: [rows, cols, err]
    gtpArgs,      \* the (row, col) handed to ConvertToGTP
    gtpText,      \* a coordinate text, as the sequence of its bytes
    boardText,    \* what board.ConvertToGTP returns for gtpArgs
    gtpCoords,    \* what ConvertGTPToCoords returns
    det,          \* the Detector: [HGrid, VGrid, LastBoardState]
    shot,         \* the screenshot DetectLatestMove is called on
    ocr,          \* what FetchMoveNumberFromOCR returned: [n, err]
    latest,       \* what DetectLatestMove returned
    calibrated,   \* whether the DetectLatestMove call invoked AutoCalibrateBoard
    recognized,   \* what recognizeWithVision returned: [result, err]
    lastKatrainMove,  \* main.go global lastKatrainMove
    lastPhoneMove,    \* main.go global lastPhoneMove
    phonePc,      \* position of the goroutine syncPhoneToKatrain
    phoneRes,     \* its local result (Move, X, Y)
    katrainPc,    \* position of the goroutine syncKatrainToPhone
    katrainGot,   \* its locals x, y, moveNumber
    katrain,      \* the last move the KaTrain service holds: [x, y, n]
    forwarded,    \* the move numbers checkPosition was called for, in order
    tapped,       \* the tapOnPhone calls made, in order: <<x, y, moveNumber>>
    stoneLabel,   \* the number written on the stone found, as a reader of the
                  \* image sees it (-1: none legible)
    filterIn,     \* the circle and move number handed to the stone filter
    accepted,     \* whether the stone filter kept the circle
    made,         \* the numbers of the moves makeMove has placed in KaTrain
    phoneCall,    \* syncPhoneToKatrain's calls of KaTrain in this iteration:
                  \* [check, answer, make]
    alignIn,      \* the grids and circle centres handed to the offset refinement
    alignOut,     \* the offsets (bestHOffset, bestVOffset) it applies
    boardIn,      \* the Board and the (row, col) handed to it
    boardPx,      \* the pixel point GetPixelCoordinate returned, or the one
                  \* handed to GetGoCoordinate
    boardGo       \* the (row, col) GetGoCoordinate returned

vars == <<table, pc, img, moveNumber, corners, markPt, stoneCenter, nearest, mask,
          invoked, markErrs, result, err,
          axisLines, axisCentres, axisGrid, hLines, vLines, calib,
          gtpArgs, gtpText, boardText, gtpCoords,
          det, shot, ocr, latest, calibrated, recognized,
          lastKatrainMove, lastPhoneMove, phonePc, phoneRes, katrainPc, katrainGot,
          katrain, forwarded, tapped, stoneLabel, filterIn, accepted,
          made, phoneCall, alignIn, alignOut, boardIn, boardPx, boardGo>>

\* the variables of DetectLastMoveCoord
detectVars == <<table, pc, img, moveNumber, corners, markPt, stoneCenter, nearest,
               mask, invoked, markErrs, result, err>>

\* the variables of everything else, which DetectLastMoveCoord leaves alone
gridVars == <<axisLines, axisCentres, axisGrid, hLines, vLines, calib>>

gtpVars == <<gtpArgs, gtpText, boardText, gtpCoords>>

ocrVars == <<det, shot, ocr, latest, calibrated, recognized>>

syncVars == <<lastKatrainMove, lastPhoneMove, phonePc, phoneRes, katrainPc,
             katrainGot, katrain, forwarded, tapped>>

\* the variables of the functions checked on their own
filterVars == <<filterIn, accepted>>
alignVars == <<alignIn, alignOut>>
boardVars == <<boardIn, boardPx, boardGo>>

auxVars == <<filterIn, accepted, alignIn, alignOut, boardIn, boardPx, boardGo>>

extVars == <<gridVars, gtpVars, ocrVars, syncVars, auxVars, made, phoneCall>>

\* the variables the functions checked on their own leave alone
nonAuxVars == <<table, img, moveNumber, corners, markPt, stoneCenter, nearest,
               mask, invoked, markErrs, result, err,
               gridVars, gtpVars, ocrVars, syncVars, stoneLabel, made,
               phoneCall>>

\* the variables the grid calibration leaves alone, besides those of
\* DetectLastMoveCoord
nonGridVars == <<gtpVars, ocrVars, syncVars, stoneLabel, auxVars, made,
                phoneCall>>

\* the variables the coordinate texts leave alone
nonGtpVars == <<gridVars, ocrVars, syncVars, stoneLabel, auxVars, made,
                phoneCall>>

\* the variables the move-number service and its callers leave alone
nonOcrVars == <<gridVars, gtpVars, syncVars, stoneLabel, auxVars, made,
                phoneCall>>

\* the variables the two synchronisation goroutines leave alone
nonSyncVars == <<gridVars, gtpVars, ocrVars, stoneLabel, auxVars>>

----------------------------------------------------------------------------
(* Bounds of the model *)

MaxMove == 2
MaxBlobs == 2
MaxCircles == 2
SnapStep == 64

(* Program constants *)

BoardWarpSize == 1024

Min(a, b) == IF a < b THEN a ELSE b
Max(a, b) == IF a > b THEN a ELSE b

Range(s) == {s[i] : i \in 1..Len(s)}

SeqsUpTo(S, n) == UNION {[1..k -> S] : k \in 0..n}

----------------------------------------------------------------------------
(* Resolution table *)

Resolutions == {<<1200, 2670>>, <<1125, 2436>>, <<1080, 1920>>}

FixedBoardCorners ==
    (<<1200, 2670>> :> << <<40, 536>>, <<1160, 536>>, <<1160, 1650>>, <<40, 1650>> >>)

\* FixedBoardCorners is an exported package variable to which entries are
\* added per resolution; the tables considered are the shipped one and the
\* shipped one plus one more entry of 3 or 5 points.
ExtraCorners(n) == [i \in 1..n |-> <<40 * i, 500 + 10 * i>>]

CornerTables ==
    {FixedBoardCorners}
    \cup {FixedBoardCorners @@ (<<1125, 2436>> :> ExtraCorners(n)) : n \in {3, 5}}

----------------------------------------------------------------------------
(* Marker colours and blobs *)

\* The marker colours named in FindMark's comments, as RGB, and the pixel
\* an image read by gocv.IMRead holds for them (BGR).
RedMarkerRGB == <<234, 61, 53>>
BlueMarkerRGB == <<28, 34, 241>>
ToBGR(rgb) == <<rgb[3], rgb[2], rgb[1]>>
RedMarkerBGR == ToBGR(RedMarkerRGB)
BlueMarkerBGR == ToBGR(BlueMarkerRGB)

\* gocv.InRange: every channel of the pixel within [lower, upper], channel
\* by channel in the order the Mat stores them.
InRange(px, lower, upper) ==
    \A c \in 1..3 : lower[c] <= px[c] /\ px[c] <= upper[c]

\* The mask of FindMark and FindMarkBGR (the same scalars in both).
MarkMask(px, mv) ==
    IF mv % 2 = 0
    THEN InRange(px, <<15, 20, 220>>, <<45, 50, 255>>)
    ELSE InRange(px, <<210, 40, 30>>, <<255, 85, 75>>)

\* A blob: colour, bounding rectangle (x, y, w, h) and contour area.
Blob(c, x, y, w, h, a) == [bgr |-> c, x |-> x, y |-> y, w |-> w, h |-> h, area |-> a]

BlobCandidates ==
    { Blob(RedMarkerBGR, 300, 400, 12, 12, 72),
      Blob(BlueMarkerBGR, 600, 300, 12, 12, 72),
      Blob(<<234, 61, 53>>, 500, 620, 12, 12, 72),
      Blob(<<28, 34, 241>>, 500, 200, 14, 12, 80),
      Blob(<<28, 34, 241>>, 0, 0, 10, 10, 50),
      Blob(<<234, 61, 53>>, 700, 700, 30, 4, 100),
      Blob(<<234, 61, 53>>, 130, 400, 46, 30, 900) }

Images == [size : Resolutions, blobs : SeqsUpTo(BlobCandidates, MaxBlobs)]

----------------------------------------------------------------------------
(* Contour selection of FindMark / FindMarkBGR *)

\* score = area * (k - ratio) with ratio = max(w,h) / min(w,h), times min(w,h)
\* so that it stays an integer; two scores are compared cross-multiplied.
ScoreNum(b, k) == b.area * (k * Min(b.w, b.h) - Max(b.w, b.h))
ScoreDen(b) == Min(b.w, b.h)

\* area within [lo, hi] and ratio not above k
Survives(b, lo, hi, k) ==
    /\ ~(b.area < lo \/ b.area > hi)
    /\ ~(Max(b.w, b.h) > k * Min(b.w, b.h))

\* the loop over the contours: bestIdx after looking at contours 1..n,
\* 0 when none was selected (bestScore starts at 0.0, comparison is strict)
RECURSIVE BestIdx(_, _, _, _, _, _)
BestIdx(blobs, sel, n, lo, hi, k) ==
    IF n = 0 THEN 0
    ELSE LET prev == BestIdx(blobs, sel, n - 1, lo, hi, k)
             b == blobs[n]
         IN  IF n \notin sel \/ ~Survives(b, lo, hi, k) THEN prev
             ELSE IF prev = 0
                  THEN (IF ScoreNum(b, k) > 0 THEN n ELSE prev)
                  ELSE IF ScoreNum(b, k) * ScoreDen(blobs[prev])
                            > ScoreNum(blobs[prev], k) * ScoreDen(b)
                       THEN n ELSE prev

BlobCenter(b) == <<b.x + b.w \div 2, b.y + b.h \div 2>>

\* FindMark: [ok, pt, mask]
FindMark(image, mv) ==
    LET sel == {i \in 1..Len(image.blobs) : MarkMask(image.blobs[i].bgr, mv)}
        best == BestIdx(image.blobs, sel, Len(image.blobs), 5, 800, 5)
    IN  IF sel = {} \/ best = 0
        THEN [ok |-> FALSE, pt |-> <<0, 0>>, mask |-> sel]
        ELSE [ok |-> TRUE, pt |-> BlobCenter(image.blobs[best]), mask |-> sel]

\* FindMarkBGR: the same mask, and-ed with the inner rectangle (15% margin)
\* before the contours are taken
InnerMargin == (BoardWarpSize * 15) \div 100

\* the part of a blob inside the inner rectangle; a filled blob keeps the
\* share of its area that its clipped bounding rectangle keeps
ClipToInner(b) ==
    LET x0 == Max(b.x, InnerMargin)
        y0 == Max(b.y, InnerMargin)
        x1 == Min(b.x + b.w, BoardWarpSize - InnerMargin)
        y1 == Min(b.y + b.h, BoardWarpSize - InnerMargin)
    IN  IF x1 <= x0 \/ y1 <= y0
        THEN Blob(b.bgr, b.x, b.y, 0, 0, 0)
        ELSE Blob(b.bgr, x0, y0, x1 - x0, y1 - y0,
                  (b.area * (x1 - x0) * (y1 - y0)) \div (b.w * b.h))

FindMarkBGR(image, mv) ==
    LET clipped == [i \in 1..Len(image.blobs) |-> ClipToInner(image.blobs[i])]
        sel == {i \in 1..Len(clipped) :
                    MarkMask(clipped[i].bgr, mv) /\ clipped[i].w > 0}
        best == BestIdx(clipped, sel, Len(clipped), 8, 600, 4)
    IN  IF sel = {} \/ best = 0
        THEN [ok |-> FALSE, pt |-> <<0, 0>>, mask |-> sel]
        ELSE [ok |-> TRUE, pt |-> BlobCenter(clipped[best]), mask |-> sel]

----------------------------------------------------------------------------
(* WarpBoard *)

\* variant: only too few corners are refused
WarpBoardFewer(cs) ==
    IF Len(cs) < 4 THEN [ok |-> FALSE] ELSE [ok |-> TRUE]

\* WarpBoard: an error unless exactly four corners are given, otherwise the
\* BoardWarpSize x BoardWarpSize rectified image.
WarpBoard(cs) ==
    IF Len(cs) # 4 THEN [ok |-> FALSE] ELSE [ok |-> TRUE]

----------------------------------------------------------------------------
(* FindStoneCenter *)

\* int(0.5 * (BoardWarpSize / 18.0)), the stone radius in pixels
RStone == BoardWarpSize \div 36

\* int(2 * rStone), computed in floating point before truncation
RoiSize == BoardWarpSize \div 18

\* steps 2-4: the initial estimate, right of and below the mark
StoneEstimate(pt) ==
    LET cx == Max(0, Min(BoardWarpSize - 1, pt[1] + RStone))
        cy == Max(0, Min(BoardWarpSize - 1, pt[2] + RStone))
    IN  <<Max(pt[1] + 5, cx), Max(pt[2] + 5, cy)>>

\* the region of interest around the estimate: <<minX, minY, maxX, maxY>>
StoneRoi(c) ==
    <<Max(0, c[1] - RoiSize), Max(0, c[2] - RoiSize),
      Min(BoardWarpSize, c[1] + RoiSize), Min(BoardWarpSize, c[2] + RoiSize)>>

\* Bounding rectangles (x, y, w, h, relative to the region of interest) the
\* largest contour of the thresholded region may have; NoContour when the
\* threshold leaves no contour.
NoContour == <<>>

ContourRects ==
    { <<0, 0, 20, 20>>, <<28, 28, 56, 56>>, <<40, 10, 30, 50>> }

ContourChoices(pt) ==
    LET roi == StoneRoi(StoneEstimate(pt))
    IN  {NoContour} \cup {r \in ContourRects :
                          r[1] + r[3] <= roi[3] - roi[1] /\ r[2] + r[4] <= roi[4] - roi[2]}

\* FindStoneCenter with the largest contour found in the region (or NoContour);
\* it never returns an error.
FindStoneCenter(pt, contour) ==
    LET est == StoneEstimate(pt)
        roi == StoneRoi(est)
    IN  IF contour = NoContour
        THEN [ok |-> TRUE, pt |-> est]
        ELSE [ok |-> TRUE,
              pt |-> <<Max(pt[1] + 5, roi[1] + contour[1] + contour[3] \div 2),
                       Max(pt[2] + 5, roi[2] + contour[2] + contour[4] \div 2)>>]

----------------------------------------------------------------------------
(* FindLastMoveDirect *)

\* A Hough circle: centre, radius and the mean colour (b, g, r) of its square.
Circle(cx, cy, r, m) == [cx |-> cx, cy |-> cy, r |-> r, mean |-> m]

CircleCandidates ==
    { Circle(170, 853, 28, <<40, 40, 40>>),
      Circle(512, 512, 28, <<220, 220, 220>>),
      Circle(398, 455, 26, <<110, 110, 110>>),
      Circle(625, 227, 28, <<90, 150, 210>>),
      Circle(20, 600, 28, <<30, 30, 30>>) }

Max3(m) == Max(Max(m[1], m[2]), m[3])
Min3(m) == Min(Min(m[1], m[2]), m[3])
ColorRange(m) == Max3(m) - Min3(m)

StoneCandidateOneLimit(c, mv) ==
    /\ ~(c.cx - c.r < 0 \/ c.cx + c.r >= BoardWarpSize
         \/ c.cy - c.r < 0 \/ c.cy + c.r >= BoardWarpSize)
    /\ ~(ColorRange(c.mean) > 30)
    /\ IF mv % 2 = 0
       THEN ~(c.mean[1] + c.mean[2] + c.mean[3] < 3 * 110)
       ELSE ~(c.mean[1] + c.mean[2] + c.mean[3] > 3 * 110)

\* the circle passes the bounds, colourfulness and brightness tests;
\* brightness = (b + g + r) / 3 is compared as b + g + r against 3 * limit
StoneCandidate(c, mv) ==
    /\ ~(c.cx - c.r < 0 \/ c.cx + c.r >= BoardWarpSize
         \/ c.cy - c.r < 0 \/ c.cy + c.r >= BoardWarpSize)
    /\ ~(ColorRange(c.mean) > 30)
    /\ IF mv % 2 = 0
       THEN ~(c.mean[1] + c.mean[2] + c.mean[3] < 3 * 120)
       ELSE ~(c.mean[1] + c.mean[2] + c.mean[3] > 3 * 100)

\* the loop over the circles: index of bestCircle after circles 1..n, 0 when
\* none; score = 1 / (colorRange + 1), strictly greater wins
RECURSIVE BestCircle(_, _, _)
BestCircle(circles, n, mv) ==
    IF n = 0 THEN 0
    ELSE LET prev == BestCircle(circles, n - 1, mv)
             c == circles[n]
         IN  IF ~StoneCandidate(c, mv) THEN prev
             ELSE IF prev = 0 THEN n
             ELSE IF ColorRange(c.mean) < ColorRange(circles[prev].mean) THEN n
             ELSE prev

FindLastMoveDirect(circles, mv) ==
    LET best == BestCircle(circles, Len(circles), mv)
        pt == IF best = 0 THEN <<0, 0>> ELSE <<circles[best].cx, circles[best].cy>>
    IN  IF Len(circles) = 0 \/ (pt[1] = 0 /\ pt[2] = 0)
        THEN [ok |-> FALSE, pt |-> <<0, 0>>]
        ELSE [ok |-> TRUE, pt |-> pt]

----------------------------------------------------------------------------
(* CalculateGrid and the nearest-intersection search *)

\* int(float64(i) * dx) with dx = BoardWarpSize / 18.0: the pixel position of
\* grid line i (the same for columns and rows, the image being square)
GridPos(i) == (i * BoardWarpSize) \div 18

\* CalculateGrid: grid[i][j] with i the column index and j the row index
CalculateGrid == [i \in 0..18 |-> [j \in 0..18 |-> <<GridPos(i), GridPos(j)>>]]

\* squared Euclidean distance; math.Hypot is monotonic in it
Dist2(p, q) == (p[1] - q[1]) * (p[1] - q[1]) + (p[2] - q[2]) * (p[2] - q[2])

\* the state of the search before the loops: bestCol, bestRow = 0, 0 and
\* minDist = math.MaxFloat64 (written d2 = -1)
SearchStart == [col |-> 0, row |-> 0, d2 |-> -1]

\* the loop body: the cell replaces the best one only when strictly nearer
Closer(acc, grid, p, col, row) ==
    LET d == Dist2(p, grid[col][row])
    IN  IF acc.d2 < 0 \/ d < acc.d2
        THEN [col |-> col, row |-> row, d2 |-> d]
        ELSE acc

\* variant: the inner loop stops one row early
RECURSIVE ScanRowsShort(_, _, _, _, _)
ScanRowsShort(grid, p, col, row, acc) ==
    IF row >= 18 THEN acc
    ELSE LET next == Closer(acc, grid, p, col, row)
         IN  IF next.d2 >= 0 THEN ScanRowsShort(grid, p, col, row + 1, next) ELSE acc

\* for row := 0; row < 19; row++
RECURSIVE ScanRows(_, _, _, _, _)
ScanRows(grid, p, col, row, acc) ==
    IF row >= 19 THEN acc
    ELSE LET next == Closer(acc, grid, p, col, row)
         IN  \* next.d2 >= 0 always holds; testing it evaluates next here
             IF next.d2 >= 0 THEN ScanRows(grid, p, col, row + 1, next) ELSE acc

\* for col := 0; col < 19; col++
RECURSIVE ScanCols(_, _, _, _)
ScanCols(grid, p, col, acc) ==
    IF col >= 19 THEN acc
    ELSE LET next == ScanRows(grid, p, col, 0, acc)
         IN  IF next.d2 >= 0 THEN ScanCols(grid, p, col + 1, next) ELSE acc

NearestIntersection(grid, p) == ScanCols(grid, p, 0, SearchStart)

\* floor of the square root, by bisection
RECURSIVE SqrtSearch(_, _, _)
SqrtSearch(n, lo, hi) ==
    IF lo = hi THEN lo
    ELSE LET mid == (lo + hi + 1) \div 2
         IN  IF mid * mid <= n THEN SqrtSearch(n, mid, hi)
             ELSE SqrtSearch(n, lo, mid - 1)

ISqrt(n) == SqrtSearch(n, 0, 46340)

\* 1.0 - minDist / maxDist in hundredths, maxDist = 0.5 * min(dx, dy) =
\* BoardWarpSize / 36; negative when the point is farther than maxDist
RawConfidence(d2) == 100 - (ISqrt(d2 * 10000) * 36) \div BoardWarpSize

\* if confidence < 0 {0} else if confidence > 1 {1}
ClampConfidence(c) == IF c < 0 THEN 0 ELSE IF c > 100 THEN 100 ELSE c

GridConfidence(d2) == ClampConfidence(RawConfidence(d2))

----------------------------------------------------------------------------
(* VerifyMoveNumber and CalculateFinalConfidence *)

\* the 90 x 90 region around the stone, clipped to the image; an error when
\* it is narrower or lower than 50, otherwise the stub answers true
VerifyMoveNumber(c) ==
    LET dx == Min(BoardWarpSize, c[1] + 45) - Max(0, c[1] - 45)
        dy == Min(BoardWarpSize, c[2] + 45) - Max(0, c[2] - 45)
    IN  IF dx < 50 \/ dy < 50
        THEN [verified |-> FALSE, ok |-> FALSE]
        ELSE [verified |-> TRUE, ok |-> TRUE]

\* variant: the bonus is added without the cap at 1.0
CalculateFinalConfidenceNoCap(gridConf, ocrVerified) ==
    IF ocrVerified THEN gridConf + 20 ELSE gridConf

CalculateFinalConfidence(gridConf, ocrVerified) ==
    LET conf == IF ocrVerified THEN gridConf + 20 ELSE gridConf
    IN  IF conf > 100 THEN 100 ELSE conf

\* color by the parity of the hint
ParityColor(mv) == IF mv % 2 = 0 THEN "W" ELSE "B"

----------------------------------------------------------------------------
(* DetectLastMoveCoord, one action per stage *)

NoPoint == <<0, 0>>
NoBest == [col |-> 0, row |-> 0, d2 |-> 0]
NoResult == [Move |-> 0, Color |-> "", X |-> 0, Y |-> 0, Confidence |-> 0,
             status |-> "none"]

\* variant: the failure Result is left zero-valued, Move included
FailResultNoMove(mv, color, status) ==
    [Move |-> 0, Color |-> color, X |-> 0, Y |-> 0, Confidence |-> 0,
     status |-> status]

\* the Result of the failure returns: coordinate (0,0), confidence 0
FailResult(mv, color, status) ==
    [Move |-> mv, Color |-> color, X |-> 0, Y |-> 0, Confidence |-> 0,
     status |-> status]

NoCalib == [rows |-> <<>>, cols |-> <<>>, err |-> "none"]

\* the board colours
ColorNone == 0
ColorBlack == 1
ColorWhite == 2

Cells == (0..18) \X (0..18)

\* the Detector NewDetector returns: no grid, a zero LastBoardState
NewDetector ==
    [HGrid |-> <<>>, VGrid |-> <<>>, LastBoardState |-> [p \in Cells |-> ColorNone]]

NoShot == [empty |-> TRUE]
NoOcr == [n |-> 0, err |-> "none"]
NoLatest == [row |-> 0, col |-> 0, color |-> ColorNone, handNumber |-> "none"]
NoRecognized == [result |-> NoResult, err |-> "none"]

\* no stone looked at
NoLabel == 0 - 1

\* no call of KaTrain made yet
NoPhoneCall == [check |-> <<>>, answer |-> "none", make |-> <<>>]

NoPhoneRes == [Move |-> 0, X |-> 0, Y |-> 0, Confidence |-> 0]
NoKatrainGot == [x |-> 0, y |-> 0, moveNumber |-> 0]

\* main.go's globals at program start, both goroutines at the top of their
\* loops, and a KaTrain game without a move
SyncVarsInit ==
    /\ lastKatrainMove = 0
    /\ lastPhoneMove = 0
    /\ phonePc = "top"
    /\ phoneRes = NoPhoneRes
    /\ katrainPc = "top"
    /\ katrainGot = NoKatrainGot
    /\ katrain = [x |-> 0, y |-> 0, n |-> 0]
    /\ forwarded = <<>>
    /\ tapped = <<>>

ExtInit ==
    /\ boardGo = <<>>
    /\ boardPx = <<>>
    /\ boardIn = <<>>
    /\ alignOut = <<>>
    /\ alignIn = <<>>
    /\ phoneCall = NoPhoneCall
    /\ made = {}
    /\ accepted = FALSE
    /\ filterIn = <<>>
    /\ axisLines = <<>>
    /\ axisCentres = <<>>
    /\ axisGrid = <<>>
    /\ hLines = <<>>
    /\ vLines = <<>>
    /\ calib = NoCalib
    /\ gtpArgs = <<>>
    /\ gtpText = <<>>
    /\ boardText = <<>>
    /\ gtpCoords = <<>>
    /\ det = NewDetector
    /\ shot = NoShot
    /\ ocr = NoOcr
    /\ latest = NoLatest
    /\ calibrated = FALSE
    /\ recognized = NoRecognized
    /\ SyncVarsInit
    /\ stoneLabel = NoLabel

Init ==
    /\ table \in CornerTables
    /\ pc = "idle"
    /\ img = [size |-> <<1200, 2670>>, blobs |-> <<>>]
    /\ moveNumber = 0
    /\ corners = <<>>
    /\ markPt = NoPoint
    /\ stoneCenter = NoPoint
    /\ nearest = NoBest
    /\ mask = {}
    /\ invoked = <<>>
    /\ markErrs = {}
    /\ result = NoResult
    /\ err = "nil"
    /\ ExtInit

\* a caller calls DetectLastMoveCoord(img, moveNumber)
Call ==
    /\ pc = "idle"
    /\ \E i \in Images, mv \in 0..MaxMove :
          /\ img' = i
          /\ moveNumber' = mv
    /\ pc' = "lookup"
    /\ corners' = <<>>
    /\ markPt' = NoPoint
    /\ stoneCenter' = NoPoint
    /\ nearest' = NoBest
    /\ mask' = {}
    /\ invoked' = <<>>
    /\ markErrs' = {}
    /\ result' = NoResult
    /\ err' = "nil"
    /\ UNCHANGED table
    /\ stoneLabel' = NoLabel
    /\ UNCHANGED extVars

\* variant: an unregistered resolution falls through to WarpBoard with no
\* corners instead of returning
LookupNoReturn ==
    /\ pc = "lookup"
    /\ corners' = IF img.size \in DOMAIN table THEN table[img.size] ELSE <<>>
    /\ pc' = "warp"
    /\ UNCHANGED <<table, img, moveNumber, markPt, stoneCenter, nearest, mask,
                   invoked, markErrs, result, err>>
    /\ UNCHANGED <<extVars, stoneLabel>>

\* the lookup of the resolution key in FixedBoardCorners
Lookup ==
    /\ pc = "lookup"
    /\ IF img.size \in DOMAIN table
       THEN /\ corners' = table[img.size]
            /\ pc' = "warp"
            /\ UNCHANGED <<result, err>>
       ELSE /\ result' = FailResult(moveNumber, "B", "unset")
            /\ err' = "unsupported_resolution"
            /\ pc' = "returned"
            /\ UNCHANGED corners
    /\ UNCHANGED <<table, img, moveNumber, markPt, stoneCenter, nearest, mask,
                   invoked, markErrs>>
    /\ UNCHANGED <<extVars, stoneLabel>>

\* warped, err := WarpBoard(img, corners), then the crop (all percentages 0)
Warp ==
    /\ pc = "warp"
    /\ invoked' = Append(invoked, "WarpBoard")
    /\ IF WarpBoard(corners).ok
       THEN /\ pc' = "mark"
            /\ UNCHANGED <<result, err>>
       ELSE /\ result' = FailResult(moveNumber, "B", "failed_at_warp")
            /\ err' = "nil"
            /\ pc' = "returned"
    /\ UNCHANGED <<table, img, moveNumber, corners, markPt, stoneCenter, nearest,
                   mask, markErrs>>
    /\ UNCHANGED <<extVars, stoneLabel>>

\* markPt, err := FindMark(warped, moveNumber)
Mark ==
    /\ pc = "mark"
    /\ invoked' = Append(invoked, "FindMark")
    /\ LET r == FindMark(img, moveNumber)
       IN  /\ mask' = r.mask
           /\ IF r.ok
              THEN /\ markPt' = r.pt
                   /\ pc' = "stone"
                   /\ UNCHANGED markErrs
              ELSE /\ markErrs' = markErrs \cup {"FindMark"}
                   /\ pc' = "markBGR"
                   /\ UNCHANGED markPt
    /\ UNCHANGED <<table, img, moveNumber, corners, stoneCenter, nearest, result, err>>
    /\ UNCHANGED <<extVars, stoneLabel>>

\* variant: FindLastMoveDirect is tried whatever FindMarkBGR returned
MarkBGRThenDirect ==
    /\ pc = "markBGR"
    /\ invoked' = Append(invoked, "FindMarkBGR")
    /\ LET r == FindMarkBGR(img, moveNumber)
       IN  /\ mask' = r.mask
           /\ markPt' = r.pt
           /\ markErrs' = IF r.ok THEN markErrs ELSE markErrs \cup {"FindMarkBGR"}
           /\ pc' = "direct"
    /\ UNCHANGED <<table, img, moveNumber, corners, stoneCenter, nearest, result, err>>
    /\ UNCHANGED <<extVars, stoneLabel>>

\* markPt, err = FindMarkBGR(warped, moveNumber)
MarkBGR ==
    /\ pc = "markBGR"
    /\ invoked' = Append(invoked, "FindMarkBGR")
    /\ LET r == FindMarkBGR(img, moveNumber)
       IN  /\ mask' = r.mask
           /\ IF r.ok
              THEN /\ markPt' = r.pt
                   /\ pc' = "stone"
                   /\ UNCHANGED markErrs
              ELSE /\ markErrs' = markErrs \cup {"FindMarkBGR"}
                   /\ pc' = "direct"
                   /\ UNCHANGED markPt
    /\ UNCHANGED <<table, img, moveNumber, corners, stoneCenter, nearest, result, err>>
    /\ UNCHANGED <<extVars, stoneLabel>>

\* stoneCenter, directErr := FindLastMoveDirect(warped, moveNumber); the
\* circles are what the Hough sweep finds in the image
Direct ==
    /\ pc = "direct"
    /\ invoked' = Append(invoked, "FindLastMoveDirect")
    /\ \E circles \in SeqsUpTo(CircleCandidates, MaxCircles) :
          LET r == FindLastMoveDirect(circles, moveNumber)
          IN  IF r.ok
              THEN /\ stoneCenter' = r.pt
                   /\ pc' = "mapDirect"
                   /\ UNCHANGED <<markErrs, result, err>>
              ELSE /\ markErrs' = markErrs \cup {"FindLastMoveDirect"}
                   /\ result' = FailResult(moveNumber, ParityColor(moveNumber),
                                           "failed_at_mark_detection")
                   /\ err' = "nil"
                   /\ pc' = "returned"
                   /\ UNCHANGED stoneCenter
    /\ UNCHANGED <<table, img, moveNumber, corners, markPt, nearest, mask>>
    /\ UNCHANGED <<extVars, stoneLabel>>

\* stoneCenter, err := FindStoneCenter(warped, markPt); the contour is what
\* the adaptive threshold leaves in the region around the estimate
Stone ==
    /\ pc = "stone"
    /\ invoked' = Append(invoked, "FindStoneCenter")
    /\ \E contour \in ContourChoices(markPt) :
          LET r == FindStoneCenter(markPt, contour)
          IN  IF r.ok
              THEN /\ stoneCenter' = r.pt
                   /\ pc' = "map"
                   /\ UNCHANGED <<result, err>>
              ELSE /\ result' = FailResult(moveNumber, "B", "failed_at_stone_center")
                   /\ err' = "nil"
                   /\ pc' = "returned"
                   /\ UNCHANGED stoneCenter
    /\ UNCHANGED <<table, img, moveNumber, corners, markPt, nearest, mask, markErrs>>
    /\ UNCHANGED <<extVars, stoneLabel>>

\* steps 4-11: grid, nearest intersection, confidence, verification, Result
SuccessResult(mv, b, c) ==
    [Move |-> mv, Color |-> ParityColor(mv), X |-> b.col, Y |-> b.row,
     Confidence |-> c, status |-> "success"]

\* what may be written on a stone: nothing legible, or a move number
StoneLabels == {NoLabel} \cup (0..MaxMove)

MapSteps ==
    LET b == NearestIntersection(CalculateGrid, stoneCenter)
        v == VerifyMoveNumber(stoneCenter)
        final == CalculateFinalConfidence(GridConfidence(b.d2), v.verified)
    IN  /\ nearest' = b
        /\ invoked' = invoked \o <<"CalculateGrid", "VerifyMoveNumber",
                                   "CalculateFinalConfidence">>
        /\ result' = SuccessResult(moveNumber, b, final)
        /\ err' = "nil"
        /\ pc' = "returned"
        /\ UNCHANGED <<table, img, moveNumber, corners, markPt, stoneCenter, mask,
                       markErrs>>
        /\ stoneLabel' \in StoneLabels
        /\ UNCHANGED extVars

\* the mapping inside the direct-detection branch
MapDirect ==
    /\ pc = "mapDirect"
    /\ MapSteps

\* the mapping after FindStoneCenter
Map ==
    /\ pc = "map"
    /\ MapSteps

\* the caller has the Result and the error; the call's locals are gone and
\* the next call may start
Return ==
    /\ pc = "returned"
    /\ pc' = "idle"
    /\ img' = [size |-> <<1200, 2670>>, blobs |-> <<>>]
    /\ moveNumber' = 0
    /\ corners' = <<>>
    /\ markPt' = NoPoint
    /\ stoneCenter' = NoPoint
    /\ nearest' = NoBest
    /\ mask' = {}
    /\ invoked' = <<>>
    /\ markErrs' = {}
    /\ result' = NoResult
    /\ err' = "nil"
    /\ UNCHANGED table
    /\ stoneLabel' = NoLabel
    /\ UNCHANGED extVars

Next ==
    \/ Call
    \/ Lookup
    \/ Warp
    \/ Mark
    \/ MarkBGR
    \/ Direct
    \/ Stone
    \/ MapDirect
    \/ Map
    \/ Return

Spec == Init /\ [][Next]_vars

----------------------------------------------------------------------------
(* The nearest-intersection search of DetectLastMoveCoord applied to points *)
(* of the rectified image                                                   *)

\* pixel coordinates tried: a lattice, the grid lines and the midpoints
\* between neighbouring grid lines (the ties)
SnapCoords ==
    {c \in 0..(BoardWarpSize - 1) : c % SnapStep = 0}
    \cup {GridPos(i) : i \in 0..17}
    \cup {(GridPos(i) + GridPos(i + 1)) \div 2 : i \in 0..17}
    \cup {BoardWarpSize - 1}

SnapInit ==
    /\ table = FixedBoardCorners
    /\ pc = "snapIdle"
    /\ img = [size |-> <<1200, 2670>>, blobs |-> <<>>]
    /\ moveNumber = 0
    /\ corners = <<>>
    /\ markPt = NoPoint
    /\ stoneCenter = NoPoint
    /\ nearest = NoBest
    /\ mask = {}
    /\ invoked = <<>>
    /\ markErrs = {}
    /\ result = NoResult
    /\ err = "nil"
    /\ ExtInit

\* grid := CalculateGrid(warped) and the search for one stone centre
SnapCall ==
    /\ pc = "snapIdle"
    /\ \E x \in SnapCoords, y \in SnapCoords :
          /\ stoneCenter' = <<x, y>>
          /\ nearest' = NearestIntersection(CalculateGrid, <<x, y>>)
    /\ pc' = "snapped"
    /\ UNCHANGED <<table, img, moveNumber, corners, markPt, mask, invoked,
                   markErrs, result, err>>
    /\ UNCHANGED <<extVars, stoneLabel>>

SnapReturn ==
    /\ pc = "snapped"
    /\ pc' = "snapIdle"
    /\ stoneCenter' = NoPoint
    /\ nearest' = NoBest
    /\ UNCHANGED <<table, img, moveNumber, corners, markPt, mask, invoked,
                   markErrs, result, err>>
    /\ UNCHANGED <<extVars, stoneLabel>>

SnapNext ==
    \/ SnapCall
    \/ SnapReturn

SnapSpec == SnapInit /\ [][SnapNext]_vars

----------------------------------------------------------------------------
(* Properties *)

Strategies == <<"FindMark", "FindMarkBGR", "FindLastMoveDirect">>

\* the strategies invoked so far in this call, in the order of invocation
InvokedStrategies == SelectSeq(invoked, LAMBDA f : f \in Range(Strategies))

Unregistered == img.size \notin DOMAIN table

WarpFailed == result.status = "failed_at_warp"

MarkersExhausted == markErrs = Range(Strategies)

\* C1: a call with an image whose resolution is not registered returns the
\* unsupported-resolution error and invokes neither WarpBoard nor any later
\* stage.
C1_UnsupportedResolution ==
    (pc # "idle" /\ Unregistered)
        => /\ invoked = <<>>
           /\ pc \in {"lookup", "returned"}
           /\ (pc = "returned" => err = "unsupported_resolution")

C1_Witness ==
    pc = "returned" /\ Unregistered /\ err = "unsupported_resolution"

\* C2: whenever the call fails (unsupported resolution, WarpBoard error, all
\* marker strategies exhausted) the Result has X = 0, Y = 0, Confidence = 0
\* and Move equal to the hint; exhausting the marker strategies returns a
\* nil error.
C2_FailedFrameIsZero ==
    (pc = "returned" /\ (Unregistered \/ WarpFailed \/ MarkersExhausted
                          \/ result.status # "success"))
        => /\ result.X = 0 /\ result.Y = 0 /\ result.Confidence = 0
           /\ result.Move = moveNumber
           /\ (MarkersExhausted => err = "nil")

C2_Witness ==
    /\ pc = "returned" /\ MarkersExhausted /\ moveNumber > 0
    /\ result.Move = moveNumber /\ result.Confidence = 0 /\ err = "nil"

\* C3: the call returns a non-nil error if and only if the resolution is
\* unsupported or WarpBoard failed.
C3_ErrorIffFatal ==
    pc = "returned" => ((err # "nil") <=> (Unregistered \/ WarpFailed))

\* C4: on every exit path the Result's Color is "B" for an odd hint and "W"
\* for an even one.
C4_ColorByParity ==
    pc = "returned" => result.Color = (IF moveNumber % 2 = 1 THEN "B" ELSE "W")

\* C5: the colour mask selects a region of the red marker colour exactly
\* when the move number is odd, and a region of the blue marker colour
\* exactly when it is even.
C5_MaskSelectsPlayersMarker ==
    (invoked # <<>> /\ invoked[Len(invoked)] \in {"FindMark", "FindMarkBGR"})
        => \A i \in 1..Len(img.blobs) :
              /\ img.blobs[i].bgr = RedMarkerBGR
                    => (i \in mask <=> moveNumber % 2 = 1)
              /\ img.blobs[i].bgr = BlueMarkerBGR
                    => (i \in mask <=> moveNumber % 2 = 0)

\* C6: the strategies are tried in the order FindMark, FindMarkBGR,
\* FindLastMoveDirect; a strategy is invoked only if every earlier one
\* returned an error, and none is invoked after one that succeeded.
C6_StrategyOrder ==
    LET n == Len(InvokedStrategies)
    IN  /\ n <= 3
        /\ InvokedStrategies = SubSeq(Strategies, 1, n)
        /\ \A k \in 1..n : \A j \in 1..(k - 1) : Strategies[j] \in markErrs
        /\ markErrs \subseteq Range(InvokedStrategies)
        /\ n <= Cardinality(markErrs) + 1

C6_Witness ==
    /\ pc = "returned" /\ result.status = "success"
    /\ InvokedStrategies = <<"FindMark", "FindMarkBGR">>
    /\ markErrs = {"FindMark"}

\* C7: for a point of the rectified image the search returns one pair of
\* indices in 0..18 x 0..18, and that intersection is at minimal distance
\* from the point.
C7_NearestIntersection ==
    pc = "snapped"
        => /\ nearest.col \in 0..18 /\ nearest.row \in 0..18
           /\ nearest.d2 = Dist2(stoneCenter, CalculateGrid[nearest.col][nearest.row])
           /\ \A i \in 0..18 : \A j \in 0..18 :
                 Dist2(stoneCenter, CalculateGrid[i][j]) >= nearest.d2

C7_Witness ==
    /\ pc = "snapped" /\ nearest.row = 18 /\ nearest.col = 9
    /\ stoneCenter[2] = BoardWarpSize - 1

\* C8: the Confidence of every returned Result lies in [0, 1], and
\* CalculateFinalConfidence stays in [0, 1] for every grid confidence in
\* [0, 1] and either value of the verification flag.
C8_ConfidenceInUnitInterval ==
    /\ pc = "returned" => (result.Confidence >= 0 /\ result.Confidence <= 100)
    /\ \A g \in 0..100 : \A v \in BOOLEAN :
          LET c == CalculateFinalConfidence(g, v) IN c >= 0 /\ c <= 100

C8_Witness ==
    /\ pc = "returned" /\ result.status = "success"
    /\ RawConfidence(nearest.d2) > 80
    /\ VerifyMoveNumber(stoneCenter).verified
    /\ result.Confidence = 100

\* C9: on every successful detection X and Y are 1-based, each in 1..19.
C9_OneBasedCoordinates ==
    (pc = "returned" /\ result.status = "success")
        => (result.X \in 1..19 /\ result.Y \in 1..19)

\* C10 as stated: WarpBoard fails exactly when fewer than four corner points
\* are supplied.
C10_FailsIffFewerThanFour ==
    "WarpBoard" \in Range(invoked) => (WarpFailed <=> Len(corners) < 4)

\* C10 as amended: WarpBoard fails exactly when the number of corner points
\* is not four.
C10_FailsIffNotFour ==
    "WarpBoard" \in Range(invoked) => (WarpFailed <=> Len(corners) # 4)

C10_Witness ==
    "WarpBoard" \in Range(invoked) /\ WarpFailed /\ Len(corners) = 5

----------------------------------------------------------------------------
(* Grid calibration: clusterLines, completeGrid and AutoCalibrateBoard.     *)
(* A line position is a float32 number of pixels; it is held here as a      *)
(* whole number of 1/Px pixel, and a float32 division is the whole-number   *)
(* division of such numbers.                                                *)

MaxMissing == 2
MaxExtra == 2

Px == 1024

RECURSIVE InsertSorted(_, _)
InsertSorted(v, s) ==
    IF s = <<>> THEN <<v>>
    ELSE IF v < Head(s) THEN <<v>> \o s
    ELSE <<Head(s)>> \o InsertSorted(v, Tail(s))

\* sort.Slice(lines, less)
RECURSIVE SortLines(_)
SortLines(s) ==
    IF s = <<>> THEN <<>> ELSE InsertSorted(Head(s), SortLines(Tail(s)))

\* the loop of clusterLines from index i, with the running currentSum and count
RECURSIVE ClusterScan(_, _, _, _, _)
ClusterScan(ls, i, currentSum, count, minSpacing) ==
    IF i > Len(ls) THEN <<currentSum \div count>>
    ELSE IF ls[i] - ls[i - 1] < minSpacing
         THEN ClusterScan(ls, i + 1, currentSum + ls[i], count + 1, minSpacing)
         ELSE <<currentSum \div count>> \o ClusterScan(ls, i + 1, ls[i], 1, minSpacing)

\* variant: a line exactly minSpacing after its predecessor joins its cluster
clusterLinesInclusive(ls, minSpacing) ==
    IF Len(ls) = 0 THEN <<>>
    ELSE LET sorted == SortLines(ls)
         IN  ClusterScan(sorted, 2, sorted[1], 1, minSpacing + 1)

clusterLines(ls, minSpacing) ==
    IF Len(ls) = 0 THEN <<>>
    ELSE LET sorted == SortLines(ls)
         IN  ClusterScan(sorted, 2, sorted[1], 1, minSpacing)

\* spaces[i] = x[i+1] - x[i]
Spaces(x) == [i \in 1..(Len(x) - 1) |-> x[i + 1] - x[i]]

RECURSIVE SeqSum(_)
SeqSum(s) == IF s = <<>> THEN 0 ELSE Head(s) + SeqSum(Tail(s))

\* minSpace, which starts at 1000000
MinSpace(spaces) ==
    LET all == Range(spaces) \cup {1000000 * Px}
    IN  CHOOSE m \in all : \A o \in all : m <= o

\* s <= bound, where bound := minSpace * 1.6
WithinBound(s, minSpace) == 10 * s <= 16 * minSpace

\* variant: the spacing is the smallest gap
AvgSpaceMin(spaces, minSpace) == minSpace

\* avgSpace: the mean of the gaps within the bound
AvgSpace(spaces, minSpace) ==
    LET smallSpaces == SelectSeq(spaces, LAMBDA s : WithinBound(s, minSpace))
    IN  IF Len(smallSpaces) > 0 THEN SeqSum(smallSpaces) \div Len(smallSpaces)
        ELSE minSpace

\* math.Round of a positive quotient s / avgSpace
RoundDiv(s, avgSpace) == (2 * s + avgSpace) \div (2 * avgSpace)

\* the completion loop from gap i: a gap within the bound keeps its line, a
\* larger gap is divided in m equal steps
RECURSIVE FillGaps(_, _, _, _, _)
FillGaps(x, spaces, minSpace, avgSpace, i) ==
    IF i > Len(spaces) THEN <<>>
    ELSE LET s == spaces[i]
             m == RoundDiv(s, avgSpace)
             here == IF WithinBound(s, minSpace) THEN <<x[i + 1]>>
                     ELSE [k \in 1..m |-> x[i] + (k * s) \div m]
         IN  here \o FillGaps(x, spaces, minSpace, avgSpace, i + 1)

\* variant: the extension starts at the front
RECURSIVE ExtendGridFront(_, _, _)
ExtendGridFront(res, avgSpace, expected) ==
    IF Len(res) >= expected THEN res
    ELSE LET front == <<res[1] - avgSpace>> \o res
         IN  IF Len(front) = expected THEN front
             ELSE ExtendGridFront(Append(front, front[Len(front)] + avgSpace),
                                  avgSpace, expected)

\* the extension loop: one line after the last, then one before the first
RECURSIVE ExtendGrid(_, _, _)
ExtendGrid(res, avgSpace, expected) ==
    IF Len(res) >= expected THEN res
    ELSE LET back == Append(res, res[Len(res)] + avgSpace)
         IN  IF Len(back) = expected THEN back
             ELSE ExtendGrid(<<back[1] - avgSpace>> \o back, avgSpace, expected)

completeGrid(x0, expected) ==
    IF Len(x0) < 2 THEN <<>>
    ELSE LET x == IF Len(x0) = expected + 2 THEN SubSeq(x0, 2, expected + 1)
                  ELSE IF Len(x0) = expected + 1 THEN SubSeq(x0, 1, expected)
                  ELSE x0
         IN  IF Len(x) = expected THEN x
             ELSE LET spaces == Spaces(x)
                      minSpace == MinSpace(spaces)
                      avgSpace == AvgSpace(spaces, minSpace)
                      filled == <<x[1]>> \o FillGaps(x, spaces, minSpace, avgSpace, 1)
                      start == (Len(filled) - expected) \div 2
                  IN  IF minSpace < 5 * Px THEN <<>>
                      ELSE IF Len(filled) > expected
                           THEN SubSeq(filled, start + 1, start + expected)
                           ELSE ExtendGrid(filled, avgSpace, expected)

\* int(math.Round(float64(v)))
RoundPx(v) ==
    IF v >= 0 THEN (v + Px \div 2) \div Px ELSE 0 - ((Px \div 2 - v) \div Px)

\* the offsets the alignment tries: -10, -8, ..., 10
AlignOffsets == {2 * k - 10 : k \in 0..10}

CalibFailure(e) == [rows |-> <<>>, cols |-> <<>>, err |-> e]

\* variant: the grids are returned whatever their lengths
AutoCalibrateBoardUnchecked(empty, h, v, nCircles, ho, vo) ==
    IF empty THEN CalibFailure("EmptyImage")
    ELSE LET hGrid == completeGrid(clusterLines(h, 10 * Px), 19)
             vGrid == completeGrid(clusterLines(v, 10 * Px), 19)
         IN  [rows |-> [i \in 1..Len(hGrid) |-> RoundPx(hGrid[i])],
              cols |-> [i \in 1..Len(vGrid) |-> RoundPx(vGrid[i])],
              err |-> "nil"]

\* AutoCalibrateBoard from the lines HoughLines reported (horizontal ones
\* already mapped back to image rows); ho and vo are the offsets the circle
\* alignment settles on, used when both grids are complete and there is more
\* than one circle
AutoCalibrateBoard(empty, h, v, nCircles, ho, vo) ==
    IF empty THEN CalibFailure("EmptyImage")
    ELSE LET hGrid == completeGrid(clusterLines(h, 10 * Px), 19)
             vGrid == completeGrid(clusterLines(v, 10 * Px), 19)
             aligned == Len(hGrid) = 19 /\ Len(vGrid) = 19 /\ nCircles > 1
             bestHOffset == IF aligned THEN ho * Px ELSE 0
             bestVOffset == IF aligned THEN vo * Px ELSE 0
         IN  IF Len(hGrid) # 19 \/ Len(vGrid) # 19
             THEN CalibFailure("GridReconstructionFailed")
             ELSE [rows |-> [i \in 1..19 |-> RoundPx(hGrid[i] + bestHOffset)],
                   cols |-> [i \in 1..19 |-> RoundPx(vGrid[i] + bestVOffset)],
                   err |-> "nil"]

(* Inputs of the reconstruction *)

Starts == {100, 110}
Spacings == {4, 5, 10, 33}

\* n lines from pixel a, d pixels apart
Even(a, d, n) == [i \in 1..n |-> (a + (i - 1) * d) * Px]

RemoveAt(s, k) == SubSeq(s, 1, k - 1) \o SubSeq(s, k + 1, Len(s))

RECURSIVE RemoveAll(_, _)
RemoveAll(s, R) ==
    IF R = {} THEN s
    ELSE LET k == CHOOSE m \in R : \A o \in R : m >= o
         IN  RemoveAll(RemoveAt(s, k), R \ {k})

\* the last line e pixels further
Stretch(s, e) == IF s = <<>> THEN s ELSE [s EXCEPT ![Len(s)] = @ + e * Px]

Reverse(s) == [i \in 1..Len(s) |-> s[Len(s) + 1 - i]]

\* a second response 3 pixels after the first line
Doubled(s) == IF s = <<>> THEN s ELSE <<s[1], s[1] + 3 * Px>> \o Tail(s)

Thinned ==
    {RemoveAll(Even(a, d, 19), R) :
        a \in Starts, d \in Spacings,
        R \in {Q \in SUBSET (1..19) : Cardinality(Q) <= MaxMissing}}

Sized ==
    {Even(a, d, n) : a \in Starts, d \in Spacings,
                     n \in (0..2) \cup (20..(19 + MaxExtra))}

LineSets ==
    LET base == Thinned \cup Sized
        plain == {s \in base : Len(s) >= 18 \/ Len(s) <= 2}
    IN  base \cup {Stretch(s, 4) : s \in base}
             \cup {Reverse(s) : s \in plain}
             \cup {Doubled(s) : s \in plain}

\* the line sets AutoCalibrateBoard is tried on
AxisSamples ==
    {<<>>, Even(100, 33, 1), Even(100, 33, 19), Even(110, 10, 19),
     RemoveAt(Even(100, 33, 19), 1), RemoveAt(Even(100, 33, 19), 7),
     Doubled(Even(100, 33, 19)), Even(100, 5, 19), Even(100, 33, 5),
     Stretch(Even(110, 10, 18), 4), Even(100, 33, 22), Reverse(Even(100, 33, 20))}

GridInit ==
    /\ table = FixedBoardCorners
    /\ pc = "gridIdle"
    /\ img = [size |-> <<1200, 2670>>, blobs |-> <<>>]
    /\ moveNumber = 0
    /\ corners = <<>>
    /\ markPt = NoPoint
    /\ stoneCenter = NoPoint
    /\ nearest = NoBest
    /\ mask = {}
    /\ invoked = <<>>
    /\ markErrs = {}
    /\ result = NoResult
    /\ err = "nil"
    /\ ExtInit

\* hCentres := clusterLines(hLines, 10); hGrid := completeGrid(hCentres, 19)
ReconstructAxis ==
    /\ pc = "gridIdle"
    /\ \E ls \in LineSets :
          /\ axisLines' = ls
          /\ axisCentres' = clusterLines(ls, 10 * Px)
          /\ axisGrid' = completeGrid(clusterLines(ls, 10 * Px), 19)
    /\ pc' = "reconstructed"
    /\ UNCHANGED <<table, img, moveNumber, corners, markPt, stoneCenter, nearest,
                   mask, invoked, markErrs, result, err, hLines, vLines, calib>>
    /\ UNCHANGED nonGridVars

\* completeGrid(x, 19) on sorted positions
CompleteAxis ==
    /\ pc = "gridIdle"
    /\ \E ls \in LineSets :
          /\ axisLines' = SortLines(ls)
          /\ axisCentres' = SortLines(ls)
          /\ axisGrid' = completeGrid(SortLines(ls), 19)
    /\ pc' = "completed"
    /\ UNCHANGED <<table, img, moveNumber, corners, markPt, stoneCenter, nearest,
                   mask, invoked, markErrs, result, err, hLines, vLines, calib>>
    /\ UNCHANGED nonGridVars

\* AutoCalibrateBoard(img)
Calibrate ==
    /\ pc = "gridIdle"
    /\ \E empty \in BOOLEAN, h \in AxisSamples, v \in AxisSamples,
          nCircles \in 0..2, ho \in AlignOffsets, vo \in AlignOffsets :
          /\ hLines' = h
          /\ vLines' = v
          /\ calib' = AutoCalibrateBoard(empty, h, v, nCircles, ho, vo)
    /\ pc' = "calibrated"
    /\ UNCHANGED <<table, img, moveNumber, corners, markPt, stoneCenter, nearest,
                   mask, invoked, markErrs, result, err, axisLines, axisCentres,
                   axisGrid>>
    /\ UNCHANGED nonGridVars

GridReturn ==
    /\ pc \in {"reconstructed", "completed", "calibrated"}
    /\ pc' = "gridIdle"
    /\ axisLines' = <<>>
    /\ axisCentres' = <<>>
    /\ axisGrid' = <<>>
    /\ hLines' = <<>>
    /\ vLines' = <<>>
    /\ calib' = NoCalib
    /\ UNCHANGED <<table, img, moveNumber, corners, markPt, stoneCenter, nearest,
                   mask, invoked, markErrs, result, err>>
    /\ UNCHANGED nonGridVars

GridNext ==
    \/ ReconstructAxis
    \/ CompleteAxis
    \/ Calibrate
    \/ GridReturn

GridSpec == GridInit /\ [][GridNext]_vars

StrictlyIncreasing(s) == \A i \in 1..(Len(s) - 1) : s[i] < s[i + 1]

\* 19 strictly increasing positions with one common gap
EvenlySpaced19(s) ==
    /\ Len(s) = 19
    /\ s[1] < s[2]
    /\ \A i \in 1..18 : s[i + 1] - s[i] = s[2] - s[1]

\* C11: on 19 strictly increasing, evenly spaced positions at least 10 pixels
\* apart, clusterLines followed by completeGrid(., 19) returns the same 19
\* positions
C11_IdempotentOnCompleteGrid ==
    (/\ pc = "reconstructed"
     /\ EvenlySpaced19(axisLines)
     /\ axisLines[2] - axisLines[1] >= 10 * Px)
        => axisGrid = axisLines

C11_Witness ==
    /\ pc = "reconstructed"
    /\ axisLines = Even(110, 10, 19)
    /\ axisGrid = axisLines

\* every position of g is within one pixel of the corresponding position of o
WithinOneUnit(g, o) ==
    /\ Len(g) = Len(o)
    /\ \A i \in 1..Len(o) : g[i] - o[i] <= Px /\ o[i] - g[i] <= Px

\* C12 as stated: for an evenly spaced 19-line set and any index k in 0..18,
\* completeGrid(., 19) on the 18 positions left after removing line k returns
\* 19 positions, each within one unit of the original
C12_RecoversAnyMissingLine ==
    pc = "completed" =>
        \A a \in Starts, d \in Spacings, k \in 0..18 :
            axisLines = RemoveAt(Even(a, d, 19), k + 1)
                => WithinOneUnit(axisGrid, Even(a, d, 19))

\* C12 amended: the same for a spacing of at least 5 pixels and any index k
\* in 1..18, that is any line but the first
C12_RecoversMissingLineButFirst ==
    pc = "completed" =>
        \A a \in Starts, d \in Spacings, k \in 1..18 :
            (d >= 5 /\ axisLines = RemoveAt(Even(a, d, 19), k + 1))
                => WithinOneUnit(axisGrid, Even(a, d, 19))

C12_Witness ==
    /\ pc = "completed"
    /\ axisLines = RemoveAt(Even(100, 33, 19), 10)
    /\ axisGrid = Even(100, 33, 19)

\* the grids completeGrid hands back for the lines of the call
CalibGrids ==
    [h |-> completeGrid(clusterLines(hLines, 10 * Px), 19),
     v |-> completeGrid(clusterLines(vLines, 10 * Px), 19)]

\* C13: AutoCalibrateBoard returns an error or two sequences of exactly 19
\* strictly increasing pixel positions, and it returns the reconstruction
\* error whenever completeGrid delivers other than 19 lines for an axis
C13_NineteenIncreasingOrError ==
    pc = "calibrated" =>
        /\ calib.err = "nil" =>
              /\ Len(calib.rows) = 19 /\ StrictlyIncreasing(calib.rows)
              /\ Len(calib.cols) = 19 /\ StrictlyIncreasing(calib.cols)
        /\ (Len(CalibGrids.h) # 19 \/ Len(CalibGrids.v) # 19)
              => calib.err \in {"GridReconstructionFailed", "EmptyImage"}

\* a grid completed from 18 lines and one extended from 5, returned
C13_Witness ==
    /\ pc = "calibrated"
    /\ calib.err = "nil"
    /\ hLines = RemoveAt(Even(100, 33, 19), 7)
    /\ vLines = Even(100, 33, 5)
    /\ Len(calib.rows) = 19
    /\ calib.cols[1] < 100

\* one axis without lines: the reconstruction error
C13_WitnessFailure ==
    /\ pc = "calibrated"
    /\ hLines = Even(100, 33, 19)
    /\ vLines = Even(100, 5, 19)
    /\ calib.err = "GridReconstructionFailed"

\* completeGrid appended at least one line after the last line it was given
Extrapolated ==
    /\ pc = "completed"
    /\ Len(axisLines) >= 2
    /\ Len(axisGrid) = 19
    /\ axisGrid[19] > axisLines[Len(axisLines)]

\* the step from the line before to the last extrapolated line
ExtrapolationStep == axisGrid[19] - axisGrid[18]

\* the most frequent gaps between consecutive positions
ModalGaps(x) ==
    LET gaps == Spaces(x)
        Times(g) == Cardinality({i \in DOMAIN gaps : gaps[i] = g})
    IN  {g \in Range(gaps) : \A o \in Range(gaps) : Times(g) >= Times(o)}

\* the mean of the gaps that are at most 1.6 times the smallest gap
MeanSmallGap(x) ==
    LET gaps == Spaces(x)
        least == CHOOSE m \in Range(gaps) : \A o \in Range(gaps) : m <= o
        small == SelectSeq(gaps, LAMBDA g : 10 * g <= 16 * least)
    IN  SeqSum(small) \div Len(small)

\* C20 as stated: the spacing completeGrid extrapolates with is the modal
\* (most frequent) gap between consecutive positions
C20_SpacingIsModalGap ==
    Extrapolated => ExtrapolationStep \in ModalGaps(axisLines)

\* C20 amended: the spacing completeGrid extrapolates with is the mean of the
\* gaps that do not exceed 1.6 times the smallest gap
C20_SpacingIsMeanOfSmallGaps ==
    Extrapolated => ExtrapolationStep = MeanSmallGap(axisLines)

\* 17 gaps, 16 of 10 pixels and one of 14: the step is their mean
C20_Witness ==
    /\ Extrapolated
    /\ axisLines = Stretch(Even(110, 10, 18), 4)
    /\ ExtrapolationStep = (174 * Px) \div 17
    /\ ModalGaps(axisLines) = {10 * Px}

----------------------------------------------------------------------------
(* Coordinate texts: ConvertToGTP and ConvertGTPToCoords of package vision, *)
(* ConvertToGTP of package board.  A text is the sequence of its bytes.     *)

MaxIndex == 20
MaxText == 3

\* the bytes 'A', 'S' and '0'
LetterA == 65
LetterS == 83
Digit0 == 48

\* "None"
NoneText == <<78, 111, 110, 101>>

\* the decimal digits of n >= 0
RECURSIVE Digits(_)
Digits(n) ==
    IF n < 10 THEN <<Digit0 + n>>
    ELSE Digits(n \div 10) \o <<Digit0 + (n % 10)>>

\* the verb %d of fmt.Sprintf
FormatInt(n) == IF n < 0 THEN <<45>> \o Digits(0 - n) ELSE Digits(n)

\* variant: the letter I is skipped, as GTP does
ConvertToGTPSkipI(row, col) ==
    IF row < 0 \/ row >= 19 \/ col < 0 \/ col >= 19 THEN NoneText
    ELSE <<LetterA + col + (IF col >= 8 THEN 1 ELSE 0)>> \o FormatInt(row)

\* vision.ConvertToGTP
ConvertToGTP(row, col) ==
    IF row < 0 \/ row >= 19 \/ col < 0 \/ col >= 19 THEN NoneText
    ELSE <<LetterA + col>> \o FormatInt(row)

\* n*10 + ch over the bytes of s, or -1 at a byte that is no digit
RECURSIVE AtoiDigits(_, _)
AtoiDigits(s, n) ==
    IF s = <<>> THEN n
    ELSE IF Head(s) < Digit0 \/ Head(s) > Digit0 + 9 THEN 0 - 1
    ELSE AtoiDigits(Tail(s), n * 10 + (Head(s) - Digit0))

\* strconv.Atoi: an optional sign, then decimal digits only
Atoi(s) ==
    LET signed == s # <<>> /\ Head(s) \in {43, 45}
        digits == IF signed THEN Tail(s) ELSE s
        n == AtoiDigits(digits, 0)
    IN  IF digits = <<>> \/ n < 0 THEN [ok |-> FALSE, n |-> 0]
        ELSE [ok |-> TRUE, n |-> IF signed /\ Head(s) = 45 THEN 0 - n ELSE n]

\* vision.ConvertGTPToCoords: (col, row), or (-1, -1)
ConvertGTPToCoords(gtp) ==
    IF Len(gtp) < 2 THEN <<0 - 1, 0 - 1>>
    ELSE IF gtp[1] < LetterA \/ gtp[1] > LetterS THEN <<0 - 1, 0 - 1>>
    ELSE LET col == gtp[1] - LetterA
             rowNum == Atoi(Tail(gtp))
         IN  IF ~rowNum.ok \/ rowNum.n < 0 \/ rowNum.n >= 19 THEN <<0 - 1, 0 - 1>>
             ELSE IF col < 0 \/ col >= 19 THEN <<0 - 1, 0 - 1>>
             ELSE <<col, rowNum.n>>

\* letters := "ABCDEFGHIJKLMNOPQRS"
BoardLetters == [i \in 0..18 |-> LetterA + i]

\* board.ConvertToGTP, for a col that indexes letters
BoardConvertToGTP(row, col) == <<BoardLetters[col]>> \o FormatInt(row + 1)

\* the indices tried
Indices == (0 - 2)..MaxIndex

\* the bytes texts are made of: @ A I S T a 0 1 8 9 + -
TextBytes == {64, 65, 73, 83, 84, 97, 48, 49, 56, 57, 43, 45}

Texts == SeqsUpTo(TextBytes, MaxText) \cup {NoneText}

GtpInit ==
    /\ table = FixedBoardCorners
    /\ pc = "gtpIdle"
    /\ img = [size |-> <<1200, 2670>>, blobs |-> <<>>]
    /\ moveNumber = 0
    /\ corners = <<>>
    /\ markPt = NoPoint
    /\ stoneCenter = NoPoint
    /\ nearest = NoBest
    /\ mask = {}
    /\ invoked = <<>>
    /\ markErrs = {}
    /\ result = NoResult
    /\ err = "nil"
    /\ ExtInit

\* text := vision.ConvertToGTP(row, col)
Format ==
    /\ pc = "gtpIdle"
    /\ \E row \in Indices, col \in Indices :
          /\ gtpArgs' = <<row, col>>
          /\ gtpText' = ConvertToGTP(row, col)
    /\ pc' = "formatted"
    /\ UNCHANGED <<boardText, gtpCoords>>
    /\ UNCHANGED <<table, img, moveNumber, corners, markPt, stoneCenter, nearest,
                   mask, invoked, markErrs, result, err>>
    /\ UNCHANGED nonGtpVars

\* board.ConvertToGTP(row, col) for the same indices; letters[col] panics
\* when col is no index of letters
BoardFormat ==
    /\ pc = "formatted"
    /\ IF gtpArgs[2] \in DOMAIN BoardLetters
       THEN /\ boardText' = BoardConvertToGTP(gtpArgs[1], gtpArgs[2])
            /\ pc' = "bothFormatted"
       ELSE /\ boardText' = boardText
            /\ pc' = "panicked"
    /\ UNCHANGED <<gtpArgs, gtpText, gtpCoords>>
    /\ UNCHANGED <<table, img, moveNumber, corners, markPt, stoneCenter, nearest,
                   mask, invoked, markErrs, result, err>>
    /\ UNCHANGED nonGtpVars

\* ConvertGTPToCoords(text) of the text ConvertToGTP produced
ParseBack ==
    /\ pc \in {"formatted", "bothFormatted"}
    /\ gtpCoords' = ConvertGTPToCoords(gtpText)
    /\ pc' = "parsed"
    /\ UNCHANGED <<gtpArgs, gtpText, boardText>>
    /\ UNCHANGED <<table, img, moveNumber, corners, markPt, stoneCenter, nearest,
                   mask, invoked, markErrs, result, err>>
    /\ UNCHANGED nonGtpVars

\* ConvertGTPToCoords(text) of any text
Parse ==
    /\ pc = "gtpIdle"
    /\ \E t \in Texts :
          /\ gtpText' = t
          /\ gtpCoords' = ConvertGTPToCoords(t)
    /\ pc' = "parsedText"
    /\ UNCHANGED <<gtpArgs, boardText>>
    /\ UNCHANGED <<table, img, moveNumber, corners, markPt, stoneCenter, nearest,
                   mask, invoked, markErrs, result, err>>
    /\ UNCHANGED nonGtpVars

GtpReturn ==
    /\ pc \in {"parsed", "parsedText"}
    /\ pc' = "gtpIdle"
    /\ gtpArgs' = <<>>
    /\ gtpText' = <<>>
    /\ boardText' = <<>>
    /\ gtpCoords' = <<>>
    /\ UNCHANGED <<table, img, moveNumber, corners, markPt, stoneCenter, nearest,
                   mask, invoked, markErrs, result, err>>
    /\ UNCHANGED nonGtpVars

GtpNext ==
    \/ Format
    \/ BoardFormat
    \/ ParseBack
    \/ Parse
    \/ GtpReturn

GtpSpec == GtpInit /\ [][GtpNext]_vars

OnBoard(rc) == rc[1] \in 0..18 /\ rc[2] \in 0..18

\* the 19 letters A..S, I among them, in order
LettersAtoS == <<65, 66, 67, 68, 69, 70, 71, 72, 73, 74, 75, 76, 77, 78, 79, 80,
                 81, 82, 83>>

\* the texts of the board's points: a letter A..S and a row number 0..18
\* written without sign or leading zero
PointTexts ==
    {<<l, d>> : l \in Range(LettersAtoS), d \in 48..57}
    \cup {<<l, 49, d>> : l \in Range(LettersAtoS), d \in 48..56}

\* what ConvertToGTP and the round trip give
FormatsAndReturns ==
    /\ (pc \in {"formatted", "bothFormatted", "parsed"} /\ OnBoard(gtpArgs))
          => /\ gtpText[1] = LettersAtoS[gtpArgs[2] + 1]
             /\ gtpText \in PointTexts
    /\ (pc \in {"formatted", "bothFormatted", "parsed"} /\ ~OnBoard(gtpArgs))
          => gtpText = NoneText
    /\ (pc = "parsed" /\ OnBoard(gtpArgs))
          => gtpCoords = <<gtpArgs[2], gtpArgs[1]>>

\* C14 as stated: ConvertToGTP maps columns 0..18 to the letters A..S with
\* none skipped, parsing its text gives back (col, row), indices off the
\* board give "None", and every other text (malformed or out of range)
\* parses to (-1, -1)
C14_RoundTripAndRejection ==
    /\ FormatsAndReturns
    /\ (pc = "parsedText" /\ gtpText \notin PointTexts)
          => gtpCoords = <<0 - 1, 0 - 1>>

\* the text after the letter is a row number as strconv.Atoi reads one: an
\* optional sign, then digits only, of a value in 0..18 (so only zero after a
\* minus sign)
ReadsAsRow(t) ==
    LET signed == t # <<>> /\ t[1] \in {43, 45}
        ds == IF signed THEN Tail(t) ELSE t
        Value[i \in 0..Len(ds)] ==
            IF i = 0 THEN 0 ELSE Value[i - 1] * 10 + (ds[i] - 48)
    IN  /\ ds # <<>>
        /\ \A i \in 1..Len(ds) : ds[i] \in 48..57
        /\ Value[Len(ds)] \in 0..18
        /\ (signed /\ t[1] = 45) => Value[Len(ds)] = 0

\* C14 amended: the same, where the texts that parse to (-1, -1) are those
\* shorter than two bytes, or whose first byte is no letter A..S, or whose
\* remainder does not read as a row number; a sign or leading zeros in the
\* row number are accepted
C14_RoundTripAndAtoiRejection ==
    /\ FormatsAndReturns
    /\ pc = "parsedText"
          => (gtpCoords = <<0 - 1, 0 - 1>>
                <=> ~(/\ Len(gtpText) >= 2
                      /\ gtpText[1] \in Range(LettersAtoS)
                      /\ ReadsAsRow(Tail(gtpText))))

\* S18 written and read back
C14_Witness ==
    /\ pc = "parsed"
    /\ gtpArgs = <<18, 18>>
    /\ gtpText = <<83, 49, 56>>
    /\ gtpCoords = <<18, 18>>

\* "A+8" is read as column 0, row 8
C14_WitnessSigned ==
    /\ pc = "parsedText"
    /\ gtpText = <<65, 43, 56>>
    /\ gtpCoords = <<0, 8>>

\* C15: for every row and col in 0..18, board.ConvertToGTP and
\* vision.ConvertToGTP produce the same text
C15_OneConvention ==
    (pc = "bothFormatted" /\ OnBoard(gtpArgs)) => boardText = gtpText

----------------------------------------------------------------------------
(* The move-number service and its two callers: Detector.DetectLatestMove   *)
(* and recognizeWithVision of package main.                                 *)

MaxStones == 2

\* what FetchMoveNumberFromOCR can return for a readable image: an error of
\* one of its kinds with 0, or the number the service read
FetchMoveNumberFromOCR ==
    {[n |-> 0, err |-> e] : e \in {"request", "status", "parse", "nomatch"}}
    \cup {[n |-> k, err |-> "nil"] : k \in 0..MaxMove}

\* "未知" and "校准失败", the texts of the two early returns
UnknownText == <<230, 156, 170, 231, 159, 165>>
CalibFailedText == <<230, 160, 161, 229, 135, 134, 229, 164, 177, 232, 180, 165>>

\* a screenshot: its size, the lines HoughLines finds in it, the cells that
\* hold a stone, the cell whose stone carries the last-move marker with the
\* marker's hue and share of the region, and the grey deviation the region
\* of a stone has
ShotCells == {<<0, 0>>, <<3, 15>>, <<18, 18>>}

Shots ==
    {[empty |-> FALSE, size |-> <<1200, 2670>>, h |-> h, v |-> Even(100, 33, 19),
      circles |-> 0, stones |-> st, mark |-> m, markHue |-> hue, ratio |-> 500,
      stdDev |-> sd] :
        h \in {Even(300, 33, 19), Even(10, 33, 19), <<>>},
        st \in {Q \in SUBSET ShotCells : Cardinality(Q) <= MaxStones},
        m \in ShotCells \cup {<<>>}, hue \in {"red", "blue"}, sd \in {20, 45}}

EmptyShot == [empty |-> TRUE]

\* CalculateCenterComplexity for the cell p, sampled at the pixel center
CalculateCenterComplexity(s, center, p, stoneColor) ==
    IF stoneColor = ColorNone THEN 0
    ELSE IF \/ center[1] - 16 < 0 \/ center[2] - 16 < 0
            \/ center[1] + 4 > s.size[1] \/ center[2] + 4 > s.size[2]
         THEN 0
    ELSE IF /\ s.mark = p /\ p \in s.stones
            /\ \/ stoneColor = ColorBlack /\ s.markHue = "red"
               \/ stoneColor = ColorWhite /\ s.markHue = "blue"
            /\ s.ratio > 100
         THEN 2000 + s.ratio
    ELSE IF p \in s.stones
         THEN IF s.stdDev > 40 THEN 500 + s.stdDev ELSE s.stdDev
    ELSE 0

\* the position of cell p in the order of the loops: rows, then columns
CellIndex(p) == p[1] * 19 + p[2]

FirstCell(S) == CHOOSE p \in S : \A q \in S : CellIndex(p) <= CellIndex(q)

LatestReturn(row, col, color, handNumber) ==
    [row |-> row, col |-> col, color |-> color, handNumber |-> handNumber]

\* the complexity of every cell, at the pixel the grids give for it
BoardComplexity(s, HGrid, VGrid, currentBoard) ==
    [p \in Cells |->
        CalculateCenterComplexity(s, <<VGrid[p[2] + 1], HGrid[p[1] + 1]>>,
                                  p, currentBoard[p])]

\* possibleMoves: the stones that are new or whose centre is busy
PossibleMoves(d, currentBoard, complexity) ==
    {p \in Cells : /\ currentBoard[p] # ColorNone
                   /\ \/ currentBoard[p] # d.LastBoardState[p]
                      \/ complexity[p] > 100}

\* the candidates of the greatest complexity above 0
MostComplex(possibleMoves, complexity) ==
    {p \in possibleMoves : /\ complexity[p] > 0
                           /\ \A q \in possibleMoves :
                                 complexity[q] <= complexity[p]}

\* the stones that the board remembered does not have
ChangedCells(d, currentBoard) ==
    {p \in Cells : /\ currentBoard[p] # ColorNone
                   /\ currentBoard[p] # d.LastBoardState[p]}

\* the move found: the first of the most complex candidates, else the first
\* changed cell, else none
FoundMove(marked, changed) ==
    IF marked # {} THEN <<FirstCell(marked)>>
    ELSE IF changed # {} THEN <<FirstCell(changed)>>
    ELSE <<>>

TotalStonesOfCells(currentBoard) ==
    Cardinality(Cells)

\* the stones counted, set to 0 above 400
TotalStones(currentBoard) ==
    LET count == Cardinality({p \in Cells : currentBoard[p] # ColorNone})
    IN  IF count > 400 THEN 0 ELSE count

\* handNumber: the number the service read, else the stones counted
HandNumber(o, totalStones) ==
    IF o.err = "nil" THEN FormatInt(o.n) ELSE FormatInt(totalStones)

\* the values returned for the move found
LatestOf(found, currentBoard, handNumber) ==
    IF found = <<>>
    THEN LatestReturn(0 - 1, 0 - 1, ColorNone, handNumber)
    ELSE LatestReturn(found[1][1], found[1][2], currentBoard[found[1]],
                      handNumber)

\* the scan of the board once the grids are known
ScanBoard(d, s, o, currentBoard, complexity) ==
    LatestOf(FoundMove(MostComplex(PossibleMoves(d, currentBoard, complexity),
                                   complexity),
                       ChangedCells(d, currentBoard)),
             currentBoard, HandNumber(o, TotalStones(currentBoard)))

\* the colour every stone is given: that of the player to move by the number
\* read, none when the service failed
ExpectedColor(o) ==
    IF o.err = "nil"
    THEN IF o.n % 2 = 1 THEN ColorBlack ELSE ColorWhite
    ELSE ColorNone

\* the Detector after a scan with the grids HGrid and VGrid
Scanned(d, s, o, HGrid, VGrid, currentBoard) ==
    [ret |-> ScanBoard(d, s, o, currentBoard,
                       BoardComplexity(s, HGrid, VGrid, currentBoard)),
     d |-> [HGrid |-> HGrid, VGrid |-> VGrid, LastBoardState |-> currentBoard]]

\* the calibration when the Detector has no grids yet
Calibrated(d, s, o, cal) ==
    IF cal.err # "nil"
    THEN [ret |-> LatestReturn(0 - 1, 0 - 1, ColorNone, CalibFailedText),
          d |-> d]
    ELSE Scanned(d, s, o, cal.rows, cal.cols, [p \in Cells |-> ExpectedColor(o)])

\* the test before the call of AutoCalibrateBoard: a grid of the Detector
\* does not have 19 lines
NeedsCalibrationAlways(d) == TRUE

NeedsCalibration(d) == Len(d.HGrid) # 19 \/ Len(d.VGrid) # 19

\* Detector.DetectLatestMove: the return values and the Detector afterwards
DetectLatestMove(d, s, o) ==
    IF s.empty
    THEN [ret |-> LatestReturn(0 - 1, 0 - 1, ColorNone, UnknownText), d |-> d]
    ELSE IF NeedsCalibration(d)
    THEN Calibrated(d, s, o,
                    AutoCalibrateBoard(FALSE, s.h, s.v, s.circles, 0, 0))
    ELSE Scanned(d, s, o, d.HGrid, d.VGrid, [p \in Cells |-> ExpectedColor(o)])

OcrInit ==
    /\ table = FixedBoardCorners
    /\ pc = "ocrIdle"
    /\ img = [size |-> <<1200, 2670>>, blobs |-> <<>>]
    /\ moveNumber = 0
    /\ corners = <<>>
    /\ markPt = NoPoint
    /\ stoneCenter = NoPoint
    /\ nearest = NoBest
    /\ mask = {}
    /\ invoked = <<>>
    /\ markErrs = {}
    /\ result = NoResult
    /\ err = "nil"
    /\ ExtInit

\* d.DetectLatestMove(img)
DetectLatest ==
    /\ pc = "ocrIdle"
    /\ \/ /\ shot' = EmptyShot
          /\ ocr' = NoOcr
          /\ latest' = DetectLatestMove(det, EmptyShot, NoOcr).ret
          /\ det' = det
          /\ calibrated' = FALSE
       \/ \E s \in Shots, o \in FetchMoveNumberFromOCR :
          \E r \in {DetectLatestMove(det, s, o)} :
             /\ shot' = s
             /\ ocr' = o
             /\ latest' = r.ret
             /\ det' = r.d
             /\ calibrated' = NeedsCalibration(det)
    /\ pc' = "latestReturned"
    /\ UNCHANGED <<table, img, moveNumber, corners, markPt, stoneCenter, nearest,
                   mask, invoked, markErrs, result, err, recognized>>
    /\ UNCHANGED nonOcrVars

LatestDone ==
    /\ pc = "latestReturned"
    /\ pc' = "ocrIdle"
    /\ shot' = NoShot
    /\ ocr' = NoOcr
    /\ latest' = NoLatest
    /\ calibrated' = FALSE
    /\ UNCHANGED <<table, img, moveNumber, corners, markPt, stoneCenter, nearest,
                   mask, invoked, markErrs, result, err, det, recognized>>
    /\ UNCHANGED nonOcrVars

\* recognizeWithVision up to its call of DetectLastMoveCoord: an image that
\* cannot be read returns (nil, error); otherwise the move number of the
\* service, 0 when it failed, is handed on.  Package main never calls
\* DetectLatestMove: its Detector is as NewDetector made it
Recognize ==
    /\ pc = "ocrIdle"
    /\ det = NewDetector
    /\ \/ /\ recognized' = [result |-> NoResult, err |-> "unreadable"]
          /\ pc' = "recognized"
          /\ UNCHANGED <<img, moveNumber, ocr>>
       \/ \E i \in Images, o \in FetchMoveNumberFromOCR :
             /\ img' = i
             /\ ocr' = o
             /\ moveNumber' = o.n
             /\ pc' = "lookup"
             /\ UNCHANGED recognized
    /\ UNCHANGED <<table, corners, markPt, stoneCenter, nearest, mask, invoked,
                   markErrs, result, err, det, calibrated, shot, latest>>
    /\ UNCHANGED nonOcrVars

\* recognizeWithVision after DetectLastMoveCoord: (&result, nil), whatever
\* the error
RecognizeReturn ==
    /\ pc = "returned"
    /\ recognized' = [result |-> result, err |-> "nil"]
    /\ pc' = "recognized"
    /\ UNCHANGED <<table, img, moveNumber, corners, markPt, stoneCenter, nearest,
                   mask, invoked, markErrs, result, err, det, calibrated, shot, ocr,
                   latest>>
    /\ UNCHANGED nonOcrVars

RecognizeDone ==
    /\ pc = "recognized"
    /\ pc' = "ocrIdle"
    /\ img' = [size |-> <<1200, 2670>>, blobs |-> <<>>]
    /\ moveNumber' = 0
    /\ corners' = <<>>
    /\ markPt' = NoPoint
    /\ stoneCenter' = NoPoint
    /\ nearest' = NoBest
    /\ mask' = {}
    /\ invoked' = <<>>
    /\ markErrs' = {}
    /\ result' = NoResult
    /\ err' = "nil"
    /\ ocr' = NoOcr
    /\ recognized' = NoRecognized
    /\ UNCHANGED <<table, det, calibrated, shot, latest>>
    /\ stoneLabel' = NoLabel
    /\ UNCHANGED <<gridVars, gtpVars, syncVars, auxVars, made, phoneCall>>

OcrNext ==
    \/ DetectLatest
    \/ LatestDone
    \/ Recognize
    \/ Lookup
    \/ Warp
    \/ Mark
    \/ MarkBGR
    \/ Direct
    \/ Stone
    \/ MapDirect
    \/ Map
    \/ RecognizeReturn
    \/ RecognizeDone

OcrSpec == OcrInit /\ [][OcrNext]_vars

\* the move-number service failed for this call
OcrFailed == ocr.err \notin {"nil", "none"}

\* C16: when the move-number service is absent or fails, DetectLatestMove
\* returns the number of stones on the board as the move number instead of
\* failing, and recognizeWithVision returns a Result with a nil error
C16_BestEffortWithoutOcr ==
    /\ (pc = "latestReturned" /\ OcrFailed /\ latest.handNumber # CalibFailedText)
          => latest.handNumber = FormatInt(Cardinality(shot.stones))
    /\ (pc = "recognized" /\ OcrFailed)
          => recognized.err = "nil" /\ recognized.result.status # "none"

----------------------------------------------------------------------------
(* The two goroutines of package main: syncPhoneToKatrain and               *)
(* syncKatrainToPhone.  Each mu.Lock() ... mu.Unlock() section is one step; *)
(* everything between two sections is one step too.                         *)

MaxSyncMove == 2

\* the (X, Y) of the successful results recognizeWithVision returns: the
\* indices bestCol, bestRow of the nearest intersection
PhoneCoords == {<<4, 16>>}

\* the Results recognizeWithVision returns for the move number mv: that of a
\* failed frame, or a successful one
PhoneResults(mv) ==
    {[Move |-> mv, X |-> 0, Y |-> 0, Confidence |-> 0]}
    \cup {[Move |-> mv, X |-> c[1], Y |-> c[2], Confidence |-> 100] :
              c \in PhoneCoords}

\* the coords of KaTrain's last move
KatrainCoords ==
    {<<0, 0>>, <<3, 15>>, <<0, 18>>, <<18, 0>>, <<18, 18>>, <<9, 9>>}

phoneGridToKatrain(x, y) == <<x - 1, 19 - y>>

SyncInit ==
    /\ table = FixedBoardCorners
    /\ pc = "sync"
    /\ img = [size |-> <<1200, 2670>>, blobs |-> <<>>]
    /\ moveNumber = 0
    /\ corners = <<>>
    /\ markPt = NoPoint
    /\ stoneCenter = NoPoint
    /\ nearest = NoBest
    /\ mask = {}
    /\ invoked = <<>>
    /\ markErrs = {}
    /\ result = NoResult
    /\ err = "nil"
    /\ ExtInit

SyncFrame ==
    /\ UNCHANGED <<table, pc, img, moveNumber, corners, markPt, stoneCenter,
                   nearest, mask, invoked, markErrs, result, err>>
    /\ UNCHANGED nonSyncVars

SyncUnchanged ==
    /\ SyncFrame
    /\ UNCHANGED <<made, phoneCall>>

\* makeMove(katrainX, katrainY, color) on a KaTrain holding k: the service
\* may refuse; a move it accepts, on a point of the board, becomes its last
MakeMoveAccepted(k, x, y) ==
    /\ k.n < MaxSyncMove
    /\ <<x, y>> \in (0..18) \X (0..18)

\* captureWithADB and recognizeWithVision: an error of either leads back to
\* the top of the loop, otherwise result is set
PhoneRecognize ==
    /\ pc = "sync"
    /\ phonePc = "top"
    /\ \/ UNCHANGED <<phonePc, phoneRes>>
       \/ \E mv \in 0..MaxSyncMove :
             /\ phoneRes' \in PhoneResults(mv)
             /\ phonePc' = "compare"
    /\ UNCHANGED <<lastKatrainMove, lastPhoneMove, katrainPc, katrainGot, katrain,
                   forwarded, tapped>>
    /\ SyncUnchanged

\* variant: a move number equal to lastPhoneMove counts as new
PhoneCompareNotLess ==
    /\ pc = "sync"
    /\ phonePc = "compare"
    /\ IF phoneRes.Move >= lastPhoneMove
       THEN phonePc' = "forward" /\ UNCHANGED phoneRes
       ELSE phonePc' = "top" /\ phoneRes' = NoPhoneRes
    /\ UNCHANGED <<lastKatrainMove, lastPhoneMove, katrainPc, katrainGot, katrain,
                   forwarded, tapped>>
    /\ SyncUnchanged

\* mu.Lock(); isNewFromPhone := result.Move > lastPhoneMove; mu.Unlock()
PhoneCompare ==
    /\ pc = "sync"
    /\ phonePc = "compare"
    /\ IF phoneRes.Move > lastPhoneMove
       THEN phonePc' = "forward" /\ UNCHANGED phoneRes
       ELSE phonePc' = "top" /\ phoneRes' = NoPhoneRes
    /\ UNCHANGED <<lastKatrainMove, lastPhoneMove, katrainPc, katrainGot, katrain,
                   forwarded, tapped>>
    /\ SyncUnchanged

\* checkPosition, and makeMove when the point is free; a move KaTrain
\* accepts becomes its last move
PhoneForward ==
    /\ pc = "sync"
    /\ phonePc = "forward"
    /\ forwarded' = Append(forwarded, phoneRes.Move)
    /\ LET k == phoneGridToKatrain(phoneRes.X, phoneRes.Y)
       IN  \/ UNCHANGED <<katrain, made>>
           \/ /\ MakeMoveAccepted(katrain, k[1], k[2])
              /\ katrain' = [x |-> k[1], y |-> k[2], n |-> katrain.n + 1]
              /\ made' = made \cup {katrain.n + 1}
    /\ phonePc' = "record"
    /\ UNCHANGED <<lastKatrainMove, lastPhoneMove, phoneRes, katrainPc, katrainGot,
                   tapped>>
    /\ UNCHANGED phoneCall
    /\ SyncFrame

\* mu.Lock(); lastPhoneMove = result.Move; mu.Unlock(), then the sleep
PhoneRecord ==
    /\ pc = "sync"
    /\ phonePc = "record"
    /\ lastPhoneMove' = phoneRes.Move
    /\ phonePc' = "top"
    /\ phoneRes' = NoPhoneRes
    /\ UNCHANGED <<lastKatrainMove, katrainPc, katrainGot, katrain, forwarded,
                   tapped>>
    /\ SyncUnchanged

\* getLastMove: what the loop receives from a service holding move k, when
\* the request succeeds (coords nil give 0, 0, 0)
getLastMove(k) ==
    IF k.n = 0 THEN NoKatrainGot
    ELSE [x |-> k.x, y |-> k.y, moveNumber |-> k.n]

\* x, y, _, moveNumber, err := getLastMove(); an error, or x == 0 && y == 0,
\* leads back to the top of the loop
KatrainPoll ==
    /\ pc = "sync"
    /\ katrainPc = "top"
    /\ \/ UNCHANGED <<katrainPc, katrainGot>>
       \/ LET got == getLastMove(katrain)
          IN  IF got.x = 0 /\ got.y = 0
              THEN UNCHANGED <<katrainPc, katrainGot>>
              ELSE katrainGot' = got /\ katrainPc' = "compare"
    /\ UNCHANGED <<lastKatrainMove, lastPhoneMove, phonePc, phoneRes, katrain,
                   forwarded, tapped>>
    /\ SyncUnchanged

\* mu.Lock(); isNewFromKatrain := moveNumber > lastKatrainMove; mu.Unlock()
KatrainCompare ==
    /\ pc = "sync"
    /\ katrainPc = "compare"
    /\ IF katrainGot.moveNumber > lastKatrainMove
       THEN katrainPc' = "tap" /\ UNCHANGED katrainGot
       ELSE katrainPc' = "top" /\ katrainGot' = NoKatrainGot
    /\ UNCHANGED <<lastKatrainMove, lastPhoneMove, phonePc, phoneRes, katrain,
                   forwarded, tapped>>
    /\ SyncUnchanged

\* tapOnPhone(x, y); its error is only printed
KatrainTap ==
    /\ pc = "sync"
    /\ katrainPc = "tap"
    /\ tapped' = Append(tapped, <<katrainGot.x, katrainGot.y, katrainGot.moveNumber>>)
    /\ katrainPc' = "record"
    /\ UNCHANGED <<lastKatrainMove, lastPhoneMove, phonePc, phoneRes, katrainGot,
                   katrain, forwarded>>
    /\ SyncUnchanged

\* mu.Lock(); lastKatrainMove = moveNumber; mu.Unlock(), then the sleep
KatrainRecord ==
    /\ pc = "sync"
    /\ katrainPc = "record"
    /\ lastKatrainMove' = katrainGot.moveNumber
    /\ katrainPc' = "top"
    /\ katrainGot' = NoKatrainGot
    /\ UNCHANGED <<lastPhoneMove, phonePc, phoneRes, katrain, forwarded, tapped>>
    /\ SyncUnchanged

\* a move is played in KaTrain itself
KatrainPlays ==
    /\ pc = "sync"
    /\ katrain.n < MaxSyncMove
    /\ \E c \in KatrainCoords :
          katrain' = [x |-> c[1], y |-> c[2], n |-> katrain.n + 1]
    /\ UNCHANGED <<lastKatrainMove, lastPhoneMove, phonePc, phoneRes, katrainPc,
                   katrainGot, forwarded, tapped>>
    /\ SyncUnchanged

SyncNext ==
    \/ PhoneRecognize
    \/ PhoneCompare
    \/ PhoneForward
    \/ PhoneRecord
    \/ KatrainPoll
    \/ KatrainCompare
    \/ KatrainTap
    \/ KatrainRecord
    \/ KatrainPlays

SyncSpec == SyncInit /\ [][SyncNext]_vars

\* C17: lastPhoneMove never decreases, and a move is forwarded to KaTrain
\* only when its number is strictly greater than lastPhoneMove and was not
\* forwarded before
C17_ForwardedOnce ==
    [][/\ lastPhoneMove' >= lastPhoneMove
       /\ forwarded' # forwarded =>
             /\ phoneRes.Move > lastPhoneMove
             /\ phoneRes.Move \notin Range(forwarded)
             /\ forwarded' = Append(forwarded, phoneRes.Move)]_vars

\* two moves forwarded, one after the other
C17_Witness ==
    /\ forwarded = <<1, 2>>
    /\ lastPhoneMove = 2

\* the goroutine syncKatrainToPhone with a KaTrain in which the next move is
\* played once the last one has reached the phone
KatrainPlaysInTurn ==
    /\ katrain.n <= lastKatrainMove
    /\ KatrainPlays

KatrainNext ==
    \/ KatrainPoll
    \/ KatrainCompare
    \/ KatrainTap
    \/ KatrainRecord
    \/ KatrainPlaysInTurn

\* the goroutine is scheduled again and again, and the service answers
KatrainFairSpec ==
    /\ SyncInit
    /\ [][KatrainNext]_vars
    /\ WF_vars(KatrainPoll)
    /\ WF_vars(KatrainCompare)
    /\ WF_vars(KatrainTap)
    /\ WF_vars(KatrainRecord)

\* C18: every KaTrain last move with coordinates in 0..18 x 0..18 and a move
\* number greater than lastKatrainMove is eventually followed by a
\* tapOnPhone call at those coordinates, and no move number is tapped twice
C18_EveryMoveTappedOnce ==
    /\ \A c \in KatrainCoords, n \in 1..MaxSyncMove :
          (katrain = [x |-> c[1], y |-> c[2], n |-> n] /\ n > lastKatrainMove)
              ~> (<<c[1], c[2], n>> \in Range(tapped))
    /\ [](\A i, j \in DOMAIN tapped : i # j => tapped[i][3] # tapped[j][3])

----------------------------------------------------------------------------
(* The confidence bonus *)

\* the cross-check of the move number was available for the stone and its
\* outcome agrees with the hint
CrossCheckAgrees ==
    /\ VerifyMoveNumber(stoneCenter).ok
    /\ stoneLabel # NoLabel
    /\ stoneLabel = moveNumber

\* C19: the bonus of 0.2 is added only when the cross-check was available and
\* agrees with the hint; otherwise the final confidence is the grid confidence
C19_BonusOnlyWhenVerified ==
    (pc = "returned" /\ result.status = "success" /\ ~CrossCheckAgrees)
        => result.Confidence = GridConfidence(nearest.d2)

----------------------------------------------------------------------------
(* The move number without a hint *)

\* the cells the Detector holds as black or white after the call
CountedOccupied ==
    Cardinality({p \in Cells : det.LastBoardState[p] \in {ColorBlack, ColorWhite}})

Clamp(n, lo, hi) == IF n < lo THEN lo ELSE IF n > hi THEN hi ELSE n

----------------------------------------------------------------------------
(* The stone filter of FindLastMoveDirect on one circle *)

\* the channel means MeanStdDev may report, around the two limits
MeanLevels == {40, 100, 101, 119, 120, 220}

\* a circle inside the image and one that crosses its edge
FilterCircles ==
    {Circle(p[1], p[2], 28, <<b, g, r>>) :
        p \in {<<512, 512>>, <<20, 600>>},
        b \in MeanLevels, g \in MeanLevels, r \in MeanLevels}

AuxInit(at) ==
    /\ table = FixedBoardCorners
    /\ pc = at
    /\ img = [size |-> <<1200, 2670>>, blobs |-> <<>>]
    /\ moveNumber = 0
    /\ corners = <<>>
    /\ markPt = NoPoint
    /\ stoneCenter = NoPoint
    /\ nearest = NoBest
    /\ mask = {}
    /\ invoked = <<>>
    /\ markErrs = {}
    /\ result = NoResult
    /\ err = "nil"
    /\ ExtInit

FilterInit == AuxInit("filterIdle")

\* one pass of the loop of FindLastMoveDirect, up to the score
Filter ==
    /\ pc = "filterIdle"
    /\ \E c \in FilterCircles, mv \in 0..MaxMove :
          /\ filterIn' = [c |-> c, mv |-> mv]
          /\ accepted' = StoneCandidate(c, mv)
    /\ pc' = "filtered"
    /\ UNCHANGED <<alignVars, boardVars>>
    /\ UNCHANGED nonAuxVars

FilterReturn ==
    /\ pc = "filtered"
    /\ pc' = "filterIdle"
    /\ filterIn' = <<>>
    /\ accepted' = FALSE
    /\ UNCHANGED <<alignVars, boardVars>>
    /\ UNCHANGED nonAuxVars

FilterNext ==
    \/ Filter
    \/ FilterReturn

FilterSpec == FilterInit /\ [][FilterNext]_vars

\* the circle lies inside the image
InsideImage(c) ==
    /\ c.cx - c.r >= 0 /\ c.cx + c.r < BoardWarpSize
    /\ c.cy - c.r >= 0 /\ c.cy + c.r < BoardWarpSize

\* three times the brightness of the mean colour
Brightness3(m) == m[1] + m[2] + m[3]

\* C22: of the circles inside the image, uniform dark grey (40,40,40) is kept
\* as a stone exactly for odd move numbers (black to be found) and uniform
\* light grey (220,220,220) exactly for even ones (white); a mean whose
\* channels differ by more than 30, or whose brightness lies strictly
\* between 100 and 120, is kept for neither
C22_GreyIsStoneColourIsNot ==
    (pc = "filtered" /\ InsideImage(filterIn.c)) =>
        /\ filterIn.c.mean = <<40, 40, 40>> => (accepted <=> filterIn.mv % 2 = 1)
        /\ filterIn.c.mean = <<220, 220, 220>> => (accepted <=> filterIn.mv % 2 = 0)
        /\ ColorRange(filterIn.c.mean) > 30 => ~accepted
        /\ (Brightness3(filterIn.c.mean) > 300 /\ Brightness3(filterIn.c.mean) < 360)
              => ~accepted

C22_Witness ==
    /\ pc = "filtered"
    /\ InsideImage(filterIn.c)
    /\ filterIn.c.mean = <<40, 40, 40>>
    /\ filterIn.mv = 1
    /\ accepted

----------------------------------------------------------------------------
(* The two goroutines with their calls of the move-number service and of    *)
(* KaTrain in flight: a request is sent in one step and answered, or timed  *)
(* out, in another.                                                         *)

\* captureWithADB, and recognizeWithVision up to the request that
\* FetchMoveNumberFromOCR sends
PhoneCallOcr ==
    /\ pc = "sync"
    /\ phonePc = "top"
    /\ \/ UNCHANGED phonePc
       \/ phonePc' = "awaitOcr"
    /\ UNCHANGED <<lastKatrainMove, lastPhoneMove, phoneRes, katrainPc, katrainGot,
                   katrain, forwarded, tapped>>
    /\ SyncUnchanged

\* the service answers; recognizeWithVision returns a Result
OcrAnswers ==
    /\ pc = "sync"
    /\ phonePc = "awaitOcr"
    /\ \E mv \in 0..MaxSyncMove : phoneRes' \in PhoneResults(mv)
    /\ phonePc' = "compare"
    /\ UNCHANGED <<lastKatrainMove, lastPhoneMove, katrainPc, katrainGot, katrain,
                   forwarded, tapped>>
    /\ SyncUnchanged

\* http.Client{Timeout: 5 * time.Second}: client.Do returns an error, the
\* move number is 0 and DetectLastMoveCoord runs with it
OcrTimeout ==
    /\ pc = "sync"
    /\ phonePc = "awaitOcr"
    /\ phoneRes' \in PhoneResults(0)
    /\ phonePc' = "compare"
    /\ UNCHANGED <<lastKatrainMove, lastPhoneMove, katrainPc, katrainGot, katrain,
                   forwarded, tapped>>
    /\ SyncUnchanged

\* checkPosition sends its request with http.Get
PhoneCallCheck ==
    /\ pc = "sync"
    /\ phonePc = "forward"
    /\ forwarded' = Append(forwarded, phoneRes.Move)
    /\ phoneCall' = [check |-> phoneGridToKatrain(phoneRes.X, phoneRes.Y),
                     answer |-> "none", make |-> <<>>]
    /\ phonePc' = "awaitCheck"
    /\ UNCHANGED <<lastKatrainMove, lastPhoneMove, phoneRes, katrainPc, katrainGot,
                   katrain, tapped, made>>
    /\ SyncFrame

\* variant: makeMove is requested whatever checkPosition answered
CheckAnswersAnyMakes ==
    /\ pc = "sync"
    /\ phonePc = "awaitCheck"
    /\ \E a \in {"error", "stone", "free"} :
          /\ phoneCall' = [phoneCall EXCEPT !.answer = a, !.make = phoneCall.check]
          /\ phonePc' = "awaitMake"
    /\ UNCHANGED <<lastKatrainMove, lastPhoneMove, phoneRes, katrainPc, katrainGot,
                   katrain, forwarded, tapped, made>>
    /\ SyncFrame

\* KaTrain answers checkPosition: an error or a stone leads to the update of
\* lastPhoneMove, a free point to the request of makeMove with http.Post
CheckAnswers ==
    /\ pc = "sync"
    /\ phonePc = "awaitCheck"
    /\ \/ /\ \E a \in {"error", "stone"} :
                phoneCall' = [phoneCall EXCEPT !.answer = a]
          /\ phonePc' = "record"
       \/ /\ phoneCall' = [phoneCall EXCEPT !.answer = "free",
                                             !.make = phoneCall.check]
          /\ phonePc' = "awaitMake"
    /\ UNCHANGED <<lastKatrainMove, lastPhoneMove, phoneRes, katrainPc, katrainGot,
                   katrain, forwarded, tapped, made>>
    /\ SyncFrame

\* KaTrain answers makeMove: a move it accepts becomes its last move
MakeAnswers ==
    /\ pc = "sync"
    /\ phonePc = "awaitMake"
    /\ LET k == phoneCall.make
       IN  \/ UNCHANGED <<katrain, made>>
           \/ /\ MakeMoveAccepted(katrain, k[1], k[2])
              /\ katrain' = [x |-> k[1], y |-> k[2], n |-> katrain.n + 1]
              /\ made' = made \cup {katrain.n + 1}
    /\ phonePc' = "record"
    /\ UNCHANGED <<lastKatrainMove, lastPhoneMove, phoneRes, katrainPc, katrainGot,
                   forwarded, tapped>>
    /\ UNCHANGED phoneCall
    /\ SyncFrame

\* getLastMove sends its request with http.Get
KatrainCallLastMove ==
    /\ pc = "sync"
    /\ katrainPc = "top"
    /\ katrainPc' = "awaitLastMove"
    /\ UNCHANGED <<lastKatrainMove, lastPhoneMove, phonePc, phoneRes, katrainGot,
                   katrain, forwarded, tapped>>
    /\ SyncUnchanged

\* KaTrain answers getLastMove: an error, or x == 0 && y == 0, leads to the
\* sleep and the top of the loop
LastMoveAnswers ==
    /\ pc = "sync"
    /\ katrainPc = "awaitLastMove"
    /\ \/ katrainPc' = "top" /\ UNCHANGED katrainGot
       \/ LET got == getLastMove(katrain)
          IN  IF got.x = 0 /\ got.y = 0
              THEN katrainPc' = "top" /\ UNCHANGED katrainGot
              ELSE katrainGot' = got /\ katrainPc' = "compare"
    /\ UNCHANGED <<lastKatrainMove, lastPhoneMove, phonePc, phoneRes, katrain,
                   forwarded, tapped>>
    /\ SyncUnchanged

\* the steps of the two goroutines themselves
GoroutineSteps ==
    \/ PhoneCallOcr
    \/ PhoneCompare
    \/ PhoneCallCheck
    \/ PhoneRecord
    \/ KatrainCallLastMove
    \/ KatrainCompare
    \/ KatrainTap
    \/ KatrainRecord

\* the answers of the two services
ServiceSteps ==
    \/ OcrAnswers
    \/ CheckAnswers
    \/ MakeAnswers
    \/ LastMoveAnswers

CallNext ==
    \/ GoroutineSteps
    \/ OcrTimeout
    \/ ServiceSteps

\* the goroutines are scheduled again and again and the timer of the client
\* fires; no service is bound to answer
CallSpec == SyncInit /\ [][CallNext]_vars

CallFairSpec ==
    /\ CallSpec
    /\ WF_vars(PhoneCallOcr) /\ WF_vars(PhoneCompare) /\ WF_vars(PhoneCallCheck)
    /\ WF_vars(PhoneRecord) /\ WF_vars(KatrainCallLastMove)
    /\ WF_vars(KatrainCompare) /\ WF_vars(KatrainTap) /\ WF_vars(KatrainRecord)
    /\ WF_vars(OcrTimeout)

\* the goroutine waits for an answer
PhoneWaits == phonePc \in {"awaitOcr", "awaitCheck", "awaitMake"}
KatrainWaits == katrainPc = "awaitLastMove"

\* C23: every call of a service is bounded by a timeout: a goroutine that
\* waits for an answer reaches the sleep at the end of its iteration even if
\* no service ever answers
C23_NoCallBlocksForEver ==
    /\ PhoneWaits ~> (phonePc = "top")
    /\ KatrainWaits ~> (katrainPc = "top")

\* the call of the move-number service alone does not block for ever
OcrCallEnds == (phonePc = "awaitOcr") ~> (phonePc # "awaitOcr")

----------------------------------------------------------------------------
(* The critical sections *)

\* the goroutine is between its comparison and its assignment
PhoneBetween == phonePc \in {"forward", "record"}
KatrainBetween == katrainPc \in {"tap", "record"}

\* C24: the comparison with lastPhoneMove (lastKatrainMove) and the
\* assignment to it are one critical section: the other goroutine takes no
\* step between the two
C24_CompareAndUpdateAtomic ==
    [][/\ PhoneBetween => UNCHANGED <<katrainPc, katrainGot, lastKatrainMove, tapped>>
       /\ KatrainBetween => UNCHANGED <<phonePc, phoneRes, lastPhoneMove, forwarded>>]_vars

----------------------------------------------------------------------------
(* What is forwarded to KaTrain *)

\* the step in which checkPosition, and makeMove after it, is called
ForwardStep == phonePc = "forward" /\ phonePc' = "record"

\* C25: the coordinates syncPhoneToKatrain hands to checkPosition and
\* makeMove lie in 0..18 x 0..18, and the Result of a failed frame
\* (confidence 0) is never forwarded
C25_ForwardsBoardPointsOnly ==
    [][ForwardStep =>
          /\ phoneGridToKatrain(phoneRes.X, phoneRes.Y) \in (0..18) \X (0..18)
          /\ phoneRes.Confidence > 0]_vars

----------------------------------------------------------------------------
(* Moves that come back *)

\* C26: a move that syncPhoneToKatrain placed in KaTrain with makeMove is
\* never tapped on the phone by syncKatrainToPhone
C26_NoEcho == \A i \in DOMAIN tapped : tapped[i][3] \notin made

----------------------------------------------------------------------------
(* checkPosition before makeMove *)

\* C27: makeMove is called only after checkPosition, called for the same
\* point in the same iteration, answered without error that the point holds
\* no stone
C27_MakeOnlyAfterFreeCheck ==
    /\ phonePc = "awaitMake" =>
          phoneCall.make = phoneGridToKatrain(phoneRes.X, phoneRes.Y)
    /\ phoneCall.make # <<>> =>
          /\ phoneCall.answer = "free"
          /\ phoneCall.make = phoneCall.check

C27_Witness ==
    /\ phonePc = "awaitMake"
    /\ phoneCall.answer = "free"
    /\ phoneCall.make = <<3, 3>>

\* an iteration in which checkPosition failed or found a stone ends without
\* a call of makeMove
C27_WitnessNoMake ==
    /\ phonePc = "record"
    /\ phoneCall.answer \in {"error", "stone"}
    /\ phoneCall.make = <<>>

----------------------------------------------------------------------------
(* The offset refinement of AutoCalibrateBoard (step 6).  Grid lines and    *)
(* circle centres are whole pixels; a distance is held in hundredths of a   *)
(* pixel and a score in units of 1/1500.                                    *)

\* the smallest square of c - (g + o) over the lines g of one axis
RECURSIVE AxisDist2(_, _, _, _)
AxisDist2(g, o, c, n) ==
    IF n = 0 THEN 1000000
    ELSE LET rest == AxisDist2(g, o, c, n - 1)
             d == c - (g[n] + o)
         IN  IF d * d < rest THEN d * d ELSE rest

\* what one circle adds to the score: 1.0 - minDist / 15.0 when the nearest
\* intersection is closer than 15.  The least Hypot over the pairs (h, v) is
\* the Hypot of the least distance on each axis
CircleScore(hGrid, vGrid, ho, vo, centre) ==
    LET d2 == AxisDist2(hGrid, ho, centre[2], Len(hGrid))
                + AxisDist2(vGrid, vo, centre[1], Len(vGrid))
    IN  IF d2 >= 225 THEN 0
        ELSE LET d == ISqrt(d2 * 10000)
             IN  IF d < 1500 THEN 1500 - d ELSE 0

RECURSIVE AlignScore(_, _, _, _, _, _)
AlignScore(hGrid, vGrid, ho, vo, allCircles, n) ==
    IF n = 0 THEN 0
    ELSE AlignScore(hGrid, vGrid, ho, vo, allCircles, n - 1)
            + CircleScore(hGrid, vGrid, ho, vo, allCircles[n])

\* the inner loop, over vo from -10 to 10 in steps of 2, for one ho; acc is
\* (bestHOffset, bestVOffset, maxScore), and a candidate wins only with a
\* strictly greater score
RECURSIVE ScanRow(_, _, _, _, _, _)
ScanRow(hGrid, vGrid, allCircles, ho, vo, acc) ==
    IF vo > 10 THEN acc
    ELSE LET score == AlignScore(hGrid, vGrid, ho, vo, allCircles, Len(allCircles))
             next == IF score > acc.maxScore
                     THEN [ho |-> ho, vo |-> vo, maxScore |-> score]
                     ELSE acc
         IN  \* the test evaluates next here
             IF next.maxScore >= 0 - 1
             THEN ScanRow(hGrid, vGrid, allCircles, ho, vo + 2, next)
             ELSE acc

\* the outer loop, over ho from -10 to 10 in steps of 2
RECURSIVE ScanOffsets(_, _, _, _, _)
ScanOffsets(hGrid, vGrid, allCircles, ho, acc) ==
    IF ho > 10 THEN acc
    ELSE LET next == ScanRow(hGrid, vGrid, allCircles, ho, 0 - 10, acc)
         IN  \* the test evaluates next here
             IF next.maxScore >= 0 - 1
             THEN ScanOffsets(hGrid, vGrid, allCircles, ho + 2, next)
             ELSE acc

\* bestHOffset, bestVOffset as applied to the grids: (0, 0) and maxScore -1.0
\* before the loops, which run for two complete grids and more than one circle
BestOffsets(hGrid, vGrid, allCircles) ==
    IF Len(hGrid) = 19 /\ Len(vGrid) = 19 /\ Len(allCircles) > 1
    THEN LET best == ScanOffsets(hGrid, vGrid, allCircles, 0 - 10,
                                 [ho |-> 0, vo |-> 0, maxScore |-> 0 - 1])
         IN  <<best.ho, best.vo>>
    ELSE <<0, 0>>

\* grids in whole pixels
PixelGrid(a, d, n) == [i \in 1..n |-> a + (i - 1) * d]

AlignGrids == {PixelGrid(100, 40, 19), PixelGrid(120, 50, 19), PixelGrid(100, 40, 18)}

\* circle centres (X, Y): on an intersection, near one, and between the lines
AlignCentres == {<<100, 100>>, <<144, 183>>, <<145, 145>>, <<195, 245>>, <<420, 220>>}

AlignInit == AuxInit("alignIdle")

Align ==
    /\ pc = "alignIdle"
    /\ \E h \in AlignGrids, v \in AlignGrids, cs \in SeqsUpTo(AlignCentres, 2) :
          /\ alignIn' = [hGrid |-> h, vGrid |-> v, allCircles |-> cs]
          /\ alignOut' = BestOffsets(h, v, cs)
    /\ pc' = "aligned"
    /\ UNCHANGED <<filterVars, boardVars>>
    /\ UNCHANGED nonAuxVars

AlignReturn ==
    /\ pc = "aligned"
    /\ pc' = "alignIdle"
    /\ alignIn' = <<>>
    /\ alignOut' = <<>>
    /\ UNCHANGED <<filterVars, boardVars>>
    /\ UNCHANGED nonAuxVars

AlignNext ==
    \/ Align
    \/ AlignReturn

AlignSpec == AlignInit /\ [][AlignNext]_vars

\* the score of the offsets numbered k for the input of the call
ScoreOf(k) ==
    AlignScore(alignIn.hGrid, alignIn.vGrid, 2 * (k \div 11) - 10, 2 * (k % 11) - 10,
               alignIn.allCircles, Len(alignIn.allCircles))

\* every candidate translation has the same score
AllScoresEqual == \A k \in 1..120 : ScoreOf(k) = ScoreOf(0)

\* C28: when every candidate translation of the search window has the same
\* alignment score, the grid is left where it was: the offset applied is
\* (0, 0)
C28_TieLeavesGridUnshifted ==
    (pc = "aligned" /\ AllScoresEqual) => alignOut = <<0, 0>>

\* ---------------------------------------------------------------------------
\* package board: the conversion between board indices and pixel points
\* ---------------------------------------------------------------------------

\* the top left corners and the sizes (BottomRight - TopLeft) of the boards
\* the conversions are applied to: sizes of exactly 2 pixels a line, a little
\* more, many more, fewer, none (the zero Board the OCR engine builds) and a
\* rectangle with its corners swapped
BoardOrigins == {<<0, 0>>, <<40, 0 - 5>>}
BoardSizes == {<<36, 36>>, <<37, 45>>, <<38, 720>>, <<35, 540>>, <<18, 36>>,
               <<0, 0>>, <<0 - 36, 90>>}

\* the pixel points GetGoCoordinate is asked about, inside and outside the
\* rectangles
PixelOrdinates == {0 - 1000, 0 - 6, 0, 17, 39, 58, 5000}

\* NewBoard: GridWidth and GridHeight are the size divided by 18.0; the
\* model keeps their numerators, the size in eighteenths of a pixel a line
NewBoard(topLeft, bottomRight) ==
    [TopLeft |-> topLeft,
     BottomRight |-> bottomRight,
     GridWidth |-> bottomRight[1] - topLeft[1],
     GridHeight |-> bottomRight[2] - topLeft[2]]

Boards ==
    {NewBoard(o, <<o[1] + sz[1], o[2] + sz[2]>>) : o \in BoardOrigins, sz \in BoardSizes}

\* int(f) of a float64 f whose real value is num / den: the fraction cut off
\* towards zero.  When the real value is a whole number and the float
\* arithmetic that produced it is not exact (a grid step that is no binary
\* fraction), f may lie a rounding error to either side of it, and the
\* conversion then yields the number or its neighbour towards zero.  A zero
\* den is a division by zero: f is an infinity or NaN and int(f) is
\* implementation-dependent; -1..19 stands for every int, because the
\* callers' clamps send all values below 0 to 0 and all above 18 to 18.
FloatToInt(num, den, exactArith) ==
    IF den = 0 THEN (0 - 1)..19
    ELSE LET n == IF den < 0 THEN 0 - num ELSE num
             d == IF den < 0 THEN 0 - den ELSE den
             t == IF n >= 0 THEN n \div d ELSE 0 - ((0 - n) \div d)
         IN  IF n % d # 0 \/ exactArith THEN {t}
             ELSE {t} \cup (IF t > 0 THEN {t - 1} ELSE {})
                      \cup (IF t < 0 THEN {t + 1} ELSE {})

\* whether size / 18.0 is a binary fraction, so that the float64 products and
\* quotients with it are exact for the whole numbers of the model
ExactStep(size) == size % 9 = 0

\* GetPixelCoordinate: TopLeft + index * grid step, cut off by int()
GetPixelCoordinate(b, row, col) ==
    FloatToInt(18 * b.TopLeft[1] + col * b.GridWidth, 18, ExactStep(b.GridWidth))
    \X FloatToInt(18 * b.TopLeft[2] + row * b.GridHeight, 18, ExactStep(b.GridHeight))

\* the index of the grid line a pixel ordinate is rounded to:
\* int((p - TopLeft) / step + 0.5), then clamped to 0..18
GoIndexTruncating(p, topLeft, size) ==
    {Clamp(i, 0, 18) : i \in FloatToInt(18 * (p - topLeft), size, ExactStep(size))}

GoIndex(p, topLeft, size) ==
    {Clamp(i, 0, 18) :
        i \in FloatToInt(36 * (p - topLeft) + size, 2 * size, ExactStep(size))}

\* GetGoCoordinate: (row, col) of the pixel point p
GetGoCoordinate(b, p) ==
    GoIndex(p[2], b.TopLeft[2], b.GridHeight) \X GoIndex(p[1], b.TopLeft[1], b.GridWidth)

BoardInit == AuxInit("boardIdle")

\* b.GetPixelCoordinate(row, col)
ToPixel ==
    /\ pc = "boardIdle"
    /\ \E b \in Boards, row \in 0..18, col \in 0..18 :
          /\ boardIn' = [b |-> b, row |-> row, col |-> col]
          /\ boardPx' \in GetPixelCoordinate(b, row, col)
    /\ pc' = "pixel"
    /\ boardGo' = <<>>
    /\ UNCHANGED <<filterVars, alignVars>>
    /\ UNCHANGED nonAuxVars

\* b.GetGoCoordinate of the point GetPixelCoordinate returned
ToGo ==
    /\ pc = "pixel"
    /\ boardGo' \in GetGoCoordinate(boardIn.b, boardPx)
    /\ pc' = "go"
    /\ UNCHANGED <<boardIn, boardPx, filterVars, alignVars>>
    /\ UNCHANGED nonAuxVars

\* b.GetGoCoordinate(p) for a pixel point p of the caller's
Locate ==
    /\ pc = "boardIdle"
    /\ \E b \in Boards, x \in PixelOrdinates, y \in PixelOrdinates :
          /\ boardIn' = [b |-> b, row |-> 0 - 1, col |-> 0 - 1]
          /\ boardPx' = <<x, y>>
          /\ boardGo' \in GetGoCoordinate(b, <<x, y>>)
    /\ pc' = "located"
    /\ UNCHANGED <<filterVars, alignVars>>
    /\ UNCHANGED nonAuxVars

BoardReturn ==
    /\ pc \in {"go", "located"}
    /\ pc' = "boardIdle"
    /\ boardIn' = <<>>
    /\ boardPx' = <<>>
    /\ boardGo' = <<>>
    /\ UNCHANGED <<filterVars, alignVars>>
    /\ UNCHANGED nonAuxVars

BoardNext ==
    \/ ToPixel
    \/ ToGo
    \/ Locate
    \/ BoardReturn

BoardSpec == BoardInit /\ [][BoardNext]_vars

\* the grid lines of the board are at least 2 pixels apart both ways
AtLeastTwoPixels(b) == b.GridWidth >= 2 * 18 /\ b.GridHeight >= 2 * 18

\* the pixel point lies inside the rectangle of the board
InsideBoard(b, p) ==
    /\ b.TopLeft[1] <= p[1] /\ p[1] <= b.BottomRight[1]
    /\ b.TopLeft[2] <= p[2] /\ p[2] <= b.BottomRight[2]

\* C29: for a Board whose grid lines are at least 2 pixels apart both ways,
\* GetGoCoordinate(GetPixelCoordinate(row, col)) is (row, col) for every row
\* and col in 0..18, and GetGoCoordinate answers indices within 0..18 for
\* every pixel point, those outside the rectangle of the board included
C29_RoundTripAndClamp ==
    (pc \in {"go", "located"} /\ AtLeastTwoPixels(boardIn.b)) =>
        /\ pc = "go" => boardGo = <<boardIn.row, boardIn.col>>
        /\ boardGo \in (0..18) \X (0..18)

\* a round trip through a pixel point that int() moved off the grid line
C29_Witness ==
    /\ pc = "go"
    /\ AtLeastTwoPixels(boardIn.b)
    /\ boardIn.row > 0 /\ boardIn.col > 0
    /\ 18 * (boardPx[1] - boardIn.b.TopLeft[1]) # boardIn.col * boardIn.b.GridWidth
    /\ 18 * (boardPx[2] - boardIn.b.TopLeft[2]) # boardIn.row * boardIn.b.GridHeight
    /\ boardGo = <<boardIn.row, boardIn.col>>

\* a point outside the rectangle of such a board is given indices of the board
C29_WitnessOutside ==
    /\ pc = "located"
    /\ AtLeastTwoPixels(boardIn.b)
    /\ ~InsideBoard(boardIn.b, boardPx)
    /\ boardGo \in (0..18) \X (0..18)

\* the indices stay within 0..18 whatever the board, the zero Board included
IndicesAlwaysOnBoard ==
    pc \in {"go", "located"} => boardGo \in (0..18) \X (0..18)

\* without the 2 pixels the round trip can miss
RoundTripOnEveryBoard ==
    pc = "go" => boardGo = <<boardIn.row, boardIn.col>>

----------------------------------------------------------------------------
(* What a DetectLatestMove call does to the Detector.                       *)

\* the step of a DetectLatestMove call
DetectLatestStep == pc = "ocrIdle" /\ pc' = "latestReturned"

\* the call returned one of its two failures: "未知" or "校准失败"
LatestFailed == latest.handNumber \in {UnknownText, CalibFailedText}

\* both grids of the Detector hold 19 entries
GridsComplete(d) == Len(d.HGrid) = 19 /\ Len(d.VGrid) = 19

\* C30: a DetectLatestMove call that fails (empty image or calibration
\* error) leaves LastBoardState, HGrid and VGrid of the Detector as they
\* were; a call that gets past the calibration replaces LastBoardState with
\* the board computed in that call; and once HGrid and VGrid hold 19 entries
\* each, no later call invokes AutoCalibrateBoard or changes them
C30_DetectorFrame ==
    [][DetectLatestStep =>
          /\ LatestFailed' => det' = det
          /\ ~LatestFailed' =>
                det'.LastBoardState = [p \in Cells |-> ExpectedColor(ocr')]
          /\ GridsComplete(det) =>
                /\ ~calibrated'
                /\ det'.HGrid = det.HGrid
                /\ det'.VGrid = det.VGrid]_vars

\* a call on a calibrated Detector with a screenshot no calibration could
\* use: it does not fail, keeps the grids and replaces the board
C30_Witness ==
    /\ pc = "latestReturned"
    /\ GridsComplete(det)
    /\ ~calibrated
    /\ ~shot.empty /\ shot.h = <<>>
    /\ ~LatestFailed
    /\ det.LastBoardState = [p \in Cells |-> ColorBlack]

\* a failed calibration: the Detector is as NewDetector made it
C30_WitnessFailed ==
    /\ pc = "latestReturned"
    /\ calibrated
    /\ latest.handNumber = CalibFailedText
    /\ det = NewDetector

====
